---- MODULE Spec2Model ----
(***************************************************************************)
(* Library management system: user directory (GestorUsuarios), catalog     *)
(* (GestorLibros) and circulation ledger (GestorPrestamos), and the Flask  *)
(* request handlers of main.py that load the managers from the pickled     *)
(* snapshots, call them and save them back.                                *)
(*                                                                         *)
(* Python values are records with a `kind` field: the class of an object   *)
(* ("Libro", "Usuario", "Administrador"), "list" and "dict" for the two    *)
(* collection types that are pickled, "None" for None.  A dict is kept as  *)
(* the sequence of its entries in insertion order.  Storage is a map from  *)
(* path to the pickled object last written there.                          *)
(*                                                                         *)
(* Specifications:                                                         *)
(*   SpecPrestamos  one GestorPrestamos object and its methods             *)
(*   SpecLibros     one GestorLibros object and its methods                *)
(*   SpecUsuarios   one GestorUsuarios object and its methods              *)
(*   Spec           the request handlers of main.py over the storage       *)
(*   SpecPassword   GestorUsuarios.validar_password on one password        *)
(*   SpecTokens     the two operations on the table of revoked tokens      *)
(*   SpecSesion     login, logout and handlers behind @jwt_required        *)
(*   SpecClave      login and PUT /cambiar_password                         *)
(*   SpecCuentas    users removed and created again, and the tokens issued  *)
(*                  before used afterwards                                 *)
(*   SpecExport     exportacion.comprime: two calls, their writer          *)
(*                  processes, catalog writes and the clock interleaved    *)
(*   SpecFormatos   the JSON, XML and CSV texts written and read back      *)
(*   SpecGuardas    two threads handling POST /prestamo or DELETE /usuario  *)
(*   SpecInformes   the three PDF reports among catalog and ledger requests *)
(*   SpecConsulta   POST /libro answered by the bibliographic service      *)
(*   SpecHilos      two threads handling POST /prestamo, the load and the   *)
(*                  two halves of the save interleaved                     *)
(***************************************************************************)
EXTENDS Integers, Sequences, FiniteSets, TLC

VARIABLES
    prestamos,  \* GestorPrestamos.__prestamos of the object under test
    libros,     \* GestorLibros.__libros of the object under test
    usuarios,   \* GestorUsuarios.__usuarios of the object under test
    ret,        \* the last method call on a manager object and its outcome
    reloj,      \* datetime.now(), as a counter
    disk,       \* durable storage: path -> pickled object
    resp,       \* the last request handled by main.py and its response
    emitidos,   \* the tokens create_access_token has issued, oldest first
    exports,    \* the calls of exportacion.comprime: position and writer processes
    temp,       \* tempfile.gettempdir(): the exported files and the archives
    hilos       \* the request threads of the server: position and local objects

vars == <<prestamos, libros, usuarios, ret, reloj, disk, resp, emitidos, exports, temp, hilos>>

\* ---------------------------------------------------------------- bounds

MaxReloj == 2      \* datetime.now() ranges over 0..MaxReloj
MaxLibros == 2     \* longest catalog list explored
MaxUsuarios == 2   \* longest user list explored
MaxLogins == 2     \* most login requests explored
MaxSegundos == 1   \* seconds that pass while exports run
MaxPeticiones == 2   \* requests handled by one thread
MaxCola == 4       \* longest tail of a password tried

\* ------------------------------------------------------------ value sets

ISBNs == {"978-1", "978-2"}
Identificadores == {"0", "1", "2"}
Titulos == {"t1", "t2"}
Autores == {"au1", "au2"}
Editoriales == {"ed1", "ed2"}
Anyos == {"2015", "2020"}
Nombres == {"n1", "n2"}
Apellidos1 == {"p1"}
Apellidos2 == {"s1"}
Clases == {"Usuario", "Administrador"}
\* passwords, as sequences of characters
PasswordsFuertes == {<<"A", "b", "c", "d", "e", "f", "1", "!">>,
                     <<"Z", "y", "x", "w", "v", "u", "9", "$">>}
Passwords == PasswordsFuertes \cup {<<"a", "b", "c">>}

\* ------------------------------------------------------- Python helpers

None == [kind |-> "None"]
PyList(s) == [kind |-> "list", v |-> s]
PyDict(s) == [kind |-> "dict", v |-> s]

\* bool(x) of Python: None, [] and {} are false; objects without __bool__
\* or __len__ (Libro, Usuario, a non-empty dict) are true
Truthy(x) ==
    CASE x.kind = "None" -> FALSE
      [] x.kind \in {"list", "dict"} -> Len(x.v) > 0
      [] OTHER -> TRUE

\* the outcome of a method call: the object's collection afterwards, the
\* exception that escaped ("none" when the call returned) and the value
Outcome(self, exc, val) == [self |-> self, exc |-> exc, val |-> val]

\* indices of the entries of dict entries `s` whose key is `k`
KeyIdx(s, k) == {n \in 1..Len(s) : s[n].k = k}
\* `k in d` for a dict
DictHas(d, k) == KeyIdx(d.v, k) # {}
\* d[k] for a key that is present
DictGet(d, k) == d.v[CHOOSE n \in KeyIdx(d.v, k) : TRUE].val
\* d[k] = val : replaces the value of a present key in place, else appends
DictSet(d, k, val) ==
    IF DictHas(d, k)
    THEN PyDict([n \in 1..Len(d.v) |-> IF d.v[n].k = k THEN [k |-> k, val |-> val] ELSE d.v[n]])
    ELSE PyDict(Append(d.v, [k |-> k, val |-> val]))
\* s without its n-th element
RemoveAt(s, n) == SubSeq(s, 1, n - 1) \o SubSeq(s, n + 1, Len(s))
\* del d[k] for a key that is present
DictDel(d, k) == PyDict(RemoveAt(d.v, CHOOSE n \in KeyIdx(d.v, k) : TRUE))

\* ------------------------------------------------------ GestorPrestamos

\* a loan record {'usuario': ..., 'fecha': ...}
Prestamo(identificador, fecha) ==
    [kind |-> "prestamo", usuario |-> identificador, fecha |-> fecha]

\* self.__prestamos[isbn], with `except KeyError: return None`; a list
\* indexed by a str raises TypeError, which the except clause lets through
buscar_prestamos(self, isbn) ==
    IF self.kind = "dict"
    THEN IF DictHas(self, isbn)
         THEN Outcome(self, "none", DictGet(self, isbn))
         ELSE Outcome(self, "none", None)
    ELSE Outcome(self, "TypeError", None)

\* [isbn for isbn, prestamo in self.__prestamos.items() if ...]; a list has
\* no items()
buscar_prestamos_usuario(self, identificador) ==
    IF self.kind = "dict"
    THEN LET hit == SelectSeq(self.v, LAMBDA e : e.val.usuario = identificador)
         IN Outcome(self, "none", PyList([n \in 1..Len(hit) |-> hit[n].k]))
    ELSE Outcome(self, "AttributeError", None)

\* mutant: the new loan overwrites the loan on record
add_prestamo_sobrescribe(self, isbn, identificador, now) ==
    Outcome(DictSet(self, isbn, Prestamo(identificador, now)), "none", None)

\* mutant: the book is refused only to the user who already holds it
add_prestamo_otro_usuario(self, isbn, identificador, now) ==
    IF ~DictHas(self, isbn) \/ DictGet(self, isbn).usuario # identificador
    THEN Outcome(DictSet(self, isbn, Prestamo(identificador, now)), "none", None)
    ELSE Outcome(self, "LibroNoDisponibleError", None)

\* `isbn not in` a list of Libro objects is true (a str equals no Libro),
\* and the item assignment that follows raises TypeError
add_prestamo(self, isbn, identificador, now) ==
    IF self.kind = "dict"
    THEN IF ~DictHas(self, isbn)
         THEN Outcome(DictSet(self, isbn, Prestamo(identificador, now)), "none", None)
         ELSE Outcome(self, "LibroNoDisponibleError", None)
    ELSE Outcome(self, "TypeError", None)

\* mutant: the borrower is not compared with the caller
remove_prestamo_sin_comprobar(self, isbn, identificador) ==
    IF DictHas(self, isbn)
    THEN Outcome(DictDel(self, isbn), "none", None)
    ELSE Outcome(self, "PrestamoNoEncontradoError", None)

\* mutant: the borrower is compared before the loan is looked up
remove_prestamo_orden(self, isbn, identificador) ==
    IF DictHas(self, isbn) /\ DictGet(self, isbn).usuario = identificador
    THEN Outcome(DictDel(self, isbn), "none", None)
    ELSE Outcome(self, "DevolucionInvalidaError", None)

\* `isbn in` a list of Libro objects is false
remove_prestamo(self, isbn, identificador) ==
    IF self.kind = "dict" /\ DictHas(self, isbn)
    THEN IF DictGet(self, isbn).usuario = identificador
         THEN Outcome(DictDel(self, isbn), "none", None)
         ELSE Outcome(self, "DevolucionInvalidaError", None)
    ELSE Outcome(self, "PrestamoNoEncontradoError", None)

\* --------------------------------------------------------- GestorLibros

Libro(isbn, titulo, autor, editorial, anyo) ==
    [kind |-> "Libro", isbn |-> isbn, titulo |-> titulo, autor |-> autor,
     editorial |-> editorial, anyo |-> anyo]

\* the answers of the bibliographic service explored: no connection, a
\* connection broken while the body is read (ChunkedEncodingError, which
\* is not a requests ConnectionError), a body without 'totalItems', no
\* item, an item with every field, an item with an empty volumeInfo
Respuestas ==
    {[kind |-> "ConnectionError"],
     [kind |-> "ChunkedEncodingError"],
     [kind |-> "sin_totalItems"],
     [kind |-> "json", totalItems |-> 0],
     [kind |-> "json", totalItems |-> 1, title |-> "t1", author |-> "au1",
      publisher |-> "ed1", anyo |-> "2015"],
     [kind |-> "json", totalItems |-> 1, title |-> "", author |-> "",
      publisher |-> "", anyo |-> ""]}

\* Libro.por_isbn: a missing field of volumeInfo gives '', anyo is the
\* first four characters of publishedDate (the field anyo of the answer)
por_isbn(isbn, respuesta) ==
    IF respuesta.kind = "ConnectionError" THEN Outcome(None, "NoConexionError", None)
    ELSE IF respuesta.kind = "ChunkedEncodingError" THEN Outcome(None, "ChunkedEncodingError", None)
    ELSE IF respuesta.kind = "sin_totalItems" THEN Outcome(None, "KeyError", None)
    ELSE IF respuesta.totalItems = 0 THEN Outcome(None, "NoConexionError", None)
    ELSE Outcome(None, "none",
                 [kind |-> "Libro", isbn |-> isbn, titulo |-> respuesta.title,
                  autor |-> respuesta.author, editorial |-> respuesta.publisher,
                  anyo |-> respuesta.anyo])

Libros == {Libro(i, t, a, e, y) : i \in ISBNs, t \in Titulos, a \in Autores,
                                  e \in Editoriales, y \in Anyos}

\* indices of the books of sequence `s` with this ISBN
IsbnIdx(s, isbn) == {n \in 1..Len(s) : s[n].isbn = isbn}
FirstIdx(S) == CHOOSE n \in S : \A m \in S : n <= m

\* [x for x in self.__libros if x.isbn == isbn][0], with `except
\* IndexError: return None`; iterating a dict yields its keys, and a str
\* key has no attribute isbn
buscar_libro(self, isbn) ==
    IF self.kind = "dict" /\ Len(self.v) > 0
    THEN Outcome(self, "AttributeError", None)
    ELSE IF self.kind = "list" /\ IsbnIdx(self.v, isbn) # {}
         THEN Outcome(self, "none", self.v[FirstIdx(IsbnIdx(self.v, isbn))])
         ELSE Outcome(self, "none", None)

\* mutant: the book is appended without looking it up first
add_libro_sin_buscar(self, libro) ==
    Outcome(PyList(Append(self.v, libro)), "none", None)

\* mutant: the title and the author are stored in each other's place
add_libro_campos(self, libro) ==
    IF Truthy(buscar_libro(self, libro.isbn).val)
    THEN Outcome(self, "LibroYaExisteError", None)
    ELSE Outcome(PyList(Append(self.v,
                     Libro(libro.isbn, libro.autor, libro.titulo, libro.editorial, libro.anyo))),
                 "none", None)

\* the argument is always a Libro here, so the isinstance test passes; a
\* dict has no append
add_libro(self, libro) ==
    LET found == buscar_libro(self, libro.isbn)
    IN IF found.exc # "none" THEN Outcome(self, found.exc, None)
       ELSE IF Truthy(found.val) THEN Outcome(self, "LibroYaExisteError", None)
       ELSE IF self.kind = "list"
            THEN Outcome(PyList(Append(self.v, libro)), "none", None)
            ELSE Outcome(self, "AttributeError", None)

\* list.remove(libro_a_eliminar) removes the first element equal to the
\* object found, which is the object found
remove_libro(self, isbn) ==
    LET found == buscar_libro(self, isbn)
    IN IF found.exc # "none" THEN Outcome(self, found.exc, None)
       ELSE IF Truthy(found.val)
            THEN Outcome(PyList(RemoveAt(self.v, FirstIdx(IsbnIdx(self.v, isbn)))), "none", None)
            ELSE Outcome(self, "LibroNoEncontradoError", None)

\* the four setters act on the object found, in place in the list
update_libro(self, isbn, titulo, autor, editorial, anyo) ==
    LET found == buscar_libro(self, isbn)
    IN IF found.exc # "none" THEN Outcome(self, found.exc, None)
       ELSE IF Truthy(found.val)
            THEN Outcome(PyList([self.v EXCEPT ![FirstIdx(IsbnIdx(self.v, isbn))] =
                             Libro(isbn, titulo, autor, editorial, anyo)]), "none", None)
            ELSE Outcome(self, "LibroNoEncontradoError", None)

\* ------------------------------------------------------- GestorUsuarios

\* a Usuario, or an Administrador (its subclass) when clase says so
Usuario(clase, identificador, nombre, apellido1, apellido2, hashed_password) ==
    [kind |-> clase, identificador |-> identificador, nombre |-> nombre,
     apellido1 |-> apellido1, apellido2 |-> apellido2,
     hashed_password |-> hashed_password]

\* isinstance(x, Administrador)
EsAdministrador(x) == x.kind = "Administrador"

\* hashlib.sha256(password.encode()).hexdigest(): the digest determines
\* the password, and is no password itself
hash_password(password) == [kind |-> "sha256", of |-> password]

\* the character classes of the pattern of validar_password; \d of a str
\* pattern matches every Unicode decimal digit, "U+0663" stands for one
\* that is not ASCII
Minusculas ==
    {"a", "b", "c", "d", "e", "f", "g", "h", "i", "j", "k", "l", "m",
     "n", "o", "p", "q", "r", "s", "t", "u", "v", "w", "x", "y", "z"}
Mayusculas ==
    {"A", "B", "C", "D", "E", "F", "G", "H", "I", "J", "K", "L", "M",
     "N", "O", "P", "Q", "R", "S", "T", "U", "V", "W", "X", "Y", "Z"}
Digitos == {"0", "1", "2", "3", "4", "5", "6", "7", "8", "9", "U+0663"}
Simbolos == {"@", "$", "!", "%", "*", "?", "&"}

\* re.search(r'^(?=.*[a-z])(?=.*[A-Z])(?=.*\d)(?=.*[@$!%*?&])
\*             [A-Za-z\d@$!%*?&]{8,}$', password): `$` also matches before
\* a newline that ends the string
validar_password(password) ==
    \E cuerpo \in {password} \cup
                   (IF Len(password) > 0 /\ password[Len(password)] = "\n"
                    THEN {SubSeq(password, 1, Len(password) - 1)} ELSE {}) :
        /\ Len(cuerpo) >= 8
        /\ \A n \in 1..Len(cuerpo) :
              cuerpo[n] \in Minusculas \cup Mayusculas \cup Digitos \cup Simbolos
        /\ \E n \in 1..Len(cuerpo) : cuerpo[n] \in Minusculas
        /\ \E n \in 1..Len(cuerpo) : cuerpo[n] \in Mayusculas
        /\ \E n \in 1..Len(cuerpo) : cuerpo[n] \in Digitos
        /\ \E n \in 1..Len(cuerpo) : cuerpo[n] \in Simbolos

\* indices of the users of sequence `s` with this identifier
IdIdx(s, identificador) == {n \in 1..Len(s) : s[n].identificador = identificador}

\* [x for x in self.__usuarios if x.identificador == identificador][0],
\* with `except IndexError: return None`
buscar_usuario(self, identificador) ==
    IF IdIdx(self.v, identificador) # {}
    THEN Outcome(self, "none", self.v[FirstIdx(IdIdx(self.v, identificador))])
    ELSE Outcome(self, "none", None)

\* mutant: the user on record is replaced by the new one
add_usuario_reemplaza(self, usuario) ==
    IF Truthy(buscar_usuario(self, usuario.identificador).val)
    THEN Outcome(PyList([self.v EXCEPT ![FirstIdx(IdIdx(self.v, usuario.identificador))] = usuario]),
                 "UsuarioYaExisteError", None)
    ELSE Outcome(PyList(Append(self.v, usuario)), "none", None)

\* the argument is always a Usuario here, so the isinstance test passes
add_usuario(self, usuario) ==
    IF Truthy(buscar_usuario(self, usuario.identificador).val)
    THEN Outcome(self, "UsuarioYaExisteError", None)
    ELSE Outcome(PyList(Append(self.v, usuario)), "none", None)

remove_usuario(self, identificador) ==
    IF Truthy(buscar_usuario(self, identificador).val)
    THEN Outcome(PyList(RemoveAt(self.v, FirstIdx(IdIdx(self.v, identificador)))), "none", None)
    ELSE Outcome(self, "UsuarioNoEncontradoError", None)

\* the three setters act on the object found, in place in the list
update_usuario(self, identificador, nombre, apellido1, apellido2) ==
    IF Truthy(buscar_usuario(self, identificador).val)
    THEN Outcome(PyList([self.v EXCEPT ![FirstIdx(IdIdx(self.v, identificador))] =
                     [@ EXCEPT !.nombre = nombre, !.apellido1 = apellido1,
                               !.apellido2 = apellido2]]), "none", None)
    ELSE Outcome(self, "UsuarioNoEncontradoError", None)

PyBool(b) == [kind |-> "bool", v |-> b]

\* mutant: the old hash is not compared with the one on record
cambiar_password_sin_comparar(self, identificador, old_password_hash, new_password_hash) ==
    LET found == buscar_usuario(self, identificador).val
    IN IF Truthy(found)
       THEN Outcome(PyList([self.v EXCEPT ![FirstIdx(IdIdx(self.v, identificador))] =
                        [@ EXCEPT !.hashed_password = new_password_hash]]),
                    "none", PyBool(TRUE))
       ELSE Outcome(self, "UsuarioNoEncontradoError", None)

cambiar_password(self, identificador, old_password_hash, new_password_hash) ==
    LET found == buscar_usuario(self, identificador).val
    IN IF Truthy(found)
       THEN IF old_password_hash = found.hashed_password
            THEN Outcome(PyList([self.v EXCEPT ![FirstIdx(IdIdx(self.v, identificador))] =
                             [@ EXCEPT !.hashed_password = new_password_hash]]),
                         "none", PyBool(TRUE))
            ELSE Outcome(self, "none", PyBool(FALSE))
       ELSE Outcome(self, "UsuarioNoEncontradoError", None)

\* ------------------------------------------------- calls on the objects

\* a method call as recorded in ret: the method, its arguments (arg is the
\* Libro or Usuario passed, or the new field values) and its outcome
Call(op, isbn, identificador, arg, out) ==
    [op |-> op, isbn |-> isbn, identificador |-> identificador, arg |-> arg,
     exc |-> out.exc, val |-> out.val]

NoCall ==
    [op |-> "init", isbn |-> "", identificador |-> "", arg |-> None,
     exc |-> "none", val |-> None]

\* time passes between two calls
Tick ==
    /\ reloj < MaxReloj
    /\ reloj' = reloj + 1
    /\ ret' = [NoCall EXCEPT !.op = "tick"]
    /\ UNCHANGED <<hilos, exports, temp, emitidos, prestamos, libros, usuarios, disk, resp>>

GP_buscar_prestamos ==
    \E isbn \in ISBNs :
        LET out == buscar_prestamos(prestamos, isbn)
        IN /\ prestamos' = out.self
           /\ ret' = Call("buscar_prestamos", isbn, "", None, out)
           /\ UNCHANGED <<hilos, exports, temp, emitidos, libros, usuarios, reloj, disk, resp>>

GP_buscar_prestamos_usuario ==
    \E identificador \in Identificadores :
        LET out == buscar_prestamos_usuario(prestamos, identificador)
        IN /\ prestamos' = out.self
           /\ ret' = Call("buscar_prestamos_usuario", "", identificador, None, out)
           /\ UNCHANGED <<hilos, exports, temp, emitidos, libros, usuarios, reloj, disk, resp>>

GP_add_prestamo ==
    \E isbn \in ISBNs, identificador \in Identificadores :
        LET out == add_prestamo(prestamos, isbn, identificador, reloj)
        IN /\ prestamos' = out.self
           /\ ret' = Call("add_prestamo", isbn, identificador, None, out)
           /\ UNCHANGED <<hilos, exports, temp, emitidos, libros, usuarios, reloj, disk, resp>>

GP_remove_prestamo ==
    \E isbn \in ISBNs, identificador \in Identificadores :
        LET out == remove_prestamo(prestamos, isbn, identificador)
        IN /\ prestamos' = out.self
           /\ ret' = Call("remove_prestamo", isbn, identificador, None, out)
           /\ UNCHANGED <<hilos, exports, temp, emitidos, libros, usuarios, reloj, disk, resp>>

GL_buscar_libro ==
    \E isbn \in ISBNs :
        LET out == buscar_libro(libros, isbn)
        IN /\ libros' = out.self
           /\ ret' = Call("buscar_libro", isbn, "", None, out)
           /\ UNCHANGED <<hilos, exports, temp, emitidos, prestamos, usuarios, reloj, disk, resp>>

GL_add_libro ==
    \E libro \in Libros :
        LET out == add_libro(libros, libro)
        IN /\ Len(libros.v) < MaxLibros
           /\ libros' = out.self
           /\ ret' = Call("add_libro", libro.isbn, "", libro, out)
           /\ UNCHANGED <<hilos, exports, temp, emitidos, prestamos, usuarios, reloj, disk, resp>>

GL_remove_libro ==
    \E isbn \in ISBNs :
        LET out == remove_libro(libros, isbn)
        IN /\ libros' = out.self
           /\ ret' = Call("remove_libro", isbn, "", None, out)
           /\ UNCHANGED <<hilos, exports, temp, emitidos, prestamos, usuarios, reloj, disk, resp>>

GL_update_libro ==
    \E libro \in Libros :
        LET out == update_libro(libros, libro.isbn, libro.titulo, libro.autor,
                                libro.editorial, libro.anyo)
        IN /\ libros' = out.self
           /\ ret' = Call("update_libro", libro.isbn, "", libro, out)
           /\ UNCHANGED <<hilos, exports, temp, emitidos, prestamos, usuarios, reloj, disk, resp>>

HashedPasswords == {hash_password(p) : p \in PasswordsFuertes}

Usuarios ==
    {Usuario(c, i, n, a1, a2, h) : c \in Clases, i \in Identificadores, n \in Nombres,
                                   a1 \in Apellidos1, a2 \in Apellidos2,
                                   h \in HashedPasswords}

GU_buscar_usuario ==
    \E identificador \in Identificadores :
        LET out == buscar_usuario(usuarios, identificador)
        IN /\ usuarios' = out.self
           /\ ret' = Call("buscar_usuario", "", identificador, None, out)
           /\ UNCHANGED <<hilos, exports, temp, emitidos, prestamos, libros, reloj, disk, resp>>

GU_add_usuario ==
    \E usuario \in Usuarios :
        LET out == add_usuario(usuarios, usuario)
        IN /\ Len(usuarios.v) < MaxUsuarios
           /\ usuarios' = out.self
           /\ ret' = Call("add_usuario", "", usuario.identificador, usuario, out)
           /\ UNCHANGED <<hilos, exports, temp, emitidos, prestamos, libros, reloj, disk, resp>>

GU_remove_usuario ==
    \E identificador \in Identificadores :
        LET out == remove_usuario(usuarios, identificador)
        IN /\ usuarios' = out.self
           /\ ret' = Call("remove_usuario", "", identificador, None, out)
           /\ UNCHANGED <<hilos, exports, temp, emitidos, prestamos, libros, reloj, disk, resp>>

GU_update_usuario ==
    \E identificador \in Identificadores, nombre \in Nombres,
       apellido1 \in Apellidos1, apellido2 \in Apellidos2 :
        LET out == update_usuario(usuarios, identificador, nombre, apellido1, apellido2)
        IN /\ usuarios' = out.self
           /\ ret' = Call("update_usuario", "", identificador,
                          [kind |-> "campos", nombre |-> nombre, apellido1 |-> apellido1,
                           apellido2 |-> apellido2], out)
           /\ UNCHANGED <<hilos, exports, temp, emitidos, prestamos, libros, reloj, disk, resp>>

GU_cambiar_password ==
    \E identificador \in Identificadores, old \in HashedPasswords, new \in HashedPasswords :
        LET out == cambiar_password(usuarios, identificador, old, new)
        IN /\ usuarios' = out.self
           /\ ret' = Call("cambiar_password", "", identificador,
                          [kind |-> "hashes", old |-> old, new |-> new], out)
           /\ UNCHANGED <<hilos, exports, temp, emitidos, prestamos, libros, reloj, disk, resp>>

\* the passwords validar_password is applied to: nothing or five letters,
\* followed by up to MaxCola characters, among them one outside the
\* pattern's class and a newline
Alfabeto == {"a", "A", "1", "!", "#", "\n"}
Prefijos == {<<>>, <<"A", "b", "c", "d", "e">>}
PasswordsPrueba ==
    {pre \o cola : pre \in Prefijos,
                   cola \in UNION {[1..n -> Alfabeto] : n \in 0..MaxCola}}

\* a static method without state: one application per behaviour
GU_validar_password ==
    \E password \in PasswordsPrueba :
        /\ ret.op = "init"
        /\ ret' = Call("validar_password", "", "", [kind |-> "password", v |-> password],
                       Outcome(usuarios, "none", PyBool(validar_password(password))))
        /\ UNCHANGED <<hilos, exports, temp, emitidos, prestamos, libros, usuarios, reloj, disk, resp>>

\* -------------------------------------------------------------- storage

\* the paths the managers open: GestorLibros and GestorPrestamos both open
\* PATH_DATA itself, GestorUsuarios opens PATH_USUARIOS
PATH_DATA == "PATH_DATA"
PATH_USUARIOS == "PATH_DATA/usuarios.pickle"
\* the SQLite database of revoked tokens and the log of login attempts
PATH_DB == "PATH_DB"
PATH_LOG == "PATH_LOG"

\* no file at the path: open(path, 'rb') raises FileNotFoundError
Absent == [kind |-> "absent"]

\* pickle.load returns the object that was dumped, whatever its type
\* a file of length zero: what open(path, 'wb') leaves until the dump is
\* flushed at the end of the with block
Vacio == [kind |-> "vacio"]

cargar_usuarios(d) == IF d[PATH_USUARIOS] = Absent THEN PyList(<<>>) ELSE d[PATH_USUARIOS]
cargar_libros(d) == IF d[PATH_DATA] = Absent THEN PyList(<<>>) ELSE d[PATH_DATA]
\* mutant: the ledger is not read from the file
cargar_prestamos_sin_leer(d) == PyDict(<<>>)

cargar_prestamos(d) == IF d[PATH_DATA] = Absent THEN PyDict(<<>>) ELSE d[PATH_DATA]

guardar_usuarios(d, self) == [d EXCEPT ![PATH_USUARIOS] = self]
guardar_libros(d, self) == [d EXCEPT ![PATH_DATA] = self]
\* mutant: the dump is skipped when the file already has content
guardar_prestamos_si_vacio(d, self) ==
    IF d[PATH_DATA] \in {Absent, Vacio} THEN [d EXCEPT ![PATH_DATA] = self] ELSE d

guardar_prestamos(d, self) == [d EXCEPT ![PATH_DATA] = self]

\* ------------------------------------------------------------- main.py

\* what a handler leaves behind: the storage and the status of the
\* response (500 when an exception escapes the handler)
Result(d, status) == [disk |-> d, status |-> status]

\* mutant: the rights are taken from the identity of the token alone
PeticionDeAdministrador_por_identidad(d, current_user) == current_user = "0"

\* isinstance(gu.buscar_usuario(get_jwt_identity()), Administrador)
PeticionDeAdministrador(d, current_user) ==
    EsAdministrador(buscar_usuario(cargar_usuarios(d), current_user).val)

\* mutant: any administrator may create administrators
main_add_usuario_sin_super(d, current_user, identificador, nombre, apellido1, apellido2, password, administrador) ==
    LET gu == cargar_usuarios(d)
        clase == IF administrador = "si" THEN "Administrador" ELSE "Usuario"
        out == add_usuario(gu, Usuario(clase, identificador, nombre, apellido1,
                                       apellido2, hash_password(password)))
    IN IF ~PeticionDeAdministrador(d, current_user) THEN Result(d, 403)
       ELSE IF ~validar_password(password) THEN Result(d, 400)
       ELSE IF out.exc = "UsuarioYaExisteError" THEN Result(d, 409)
       ELSE Result(guardar_usuarios(d, out.self), 200)

main_add_usuario(d, current_user, identificador, nombre, apellido1, apellido2, password, administrador) ==
    LET gu == cargar_usuarios(d)
        clase == IF administrador = "si" THEN "Administrador" ELSE "Usuario"
        out == add_usuario(gu, Usuario(clase, identificador, nombre, apellido1,
                                       apellido2, hash_password(password)))
    IN IF ~PeticionDeAdministrador(d, current_user) THEN Result(d, 403)
       ELSE IF ~validar_password(password) THEN Result(d, 400)
       ELSE IF administrador = "si" /\ current_user # "0" THEN Result(d, 403)
       ELSE IF out.exc = "UsuarioYaExisteError" THEN Result(d, 409)
       ELSE Result(guardar_usuarios(d, out.self), 200)

main_update_usuario(d, current_user, nombre, apellido1, apellido2) ==
    LET out == update_usuario(cargar_usuarios(d), current_user, nombre, apellido1, apellido2)
    IN IF out.exc = "UsuarioNoEncontradoError" THEN Result(d, 404)
       ELSE Result(guardar_usuarios(d, out.self), 200)

\* mutant: the loans of the user are not looked at
main_remove_usuario_sin_prestamos(d, current_user, identificador) ==
    LET out == remove_usuario(cargar_usuarios(d), identificador)
    IN IF ~PeticionDeAdministrador(d, current_user) THEN Result(d, 403)
       ELSE IF out.exc = "UsuarioNoEncontradoError" THEN Result(d, 404)
       ELSE Result(guardar_usuarios(d, out.self), 200)

main_remove_usuario(d, current_user, identificador) ==
    LET gp == buscar_prestamos_usuario(cargar_prestamos(d), identificador)
        out == remove_usuario(cargar_usuarios(d), identificador)
    IN IF ~PeticionDeAdministrador(d, current_user) THEN Result(d, 403)
       ELSE IF gp.exc # "none" THEN Result(d, 500)
       ELSE IF Truthy(gp.val) THEN Result(d, 409)
       ELSE IF out.exc = "UsuarioNoEncontradoError" THEN Result(d, 404)
       ELSE Result(guardar_usuarios(d, out.self), 200)

\* `datos` is the Libro of the four fields of the request when all four
\* are given, None when one is missing and the service is asked
main_add_libro(d, current_user, isbn, datos, respuesta) ==
    LET gl == cargar_libros(d)
        remoto == por_isbn(isbn, respuesta)
        out == IF Truthy(datos) THEN add_libro(gl, datos)
               ELSE IF remoto.exc # "none" THEN remoto
               ELSE add_libro(gl, remoto.val)
    IN IF ~PeticionDeAdministrador(d, current_user) THEN Result(d, 403)
       ELSE IF out.exc = "NoConexionError" THEN Result(d, 424)
       ELSE IF out.exc = "LibroYaExisteError" THEN Result(d, 409)
       ELSE IF out.exc # "none" THEN Result(d, 500)
       ELSE Result(guardar_libros(d, out.self), 200)

main_update_libro(d, current_user, isbn, titulo, autor, editorial, anyo) ==
    LET gp == buscar_prestamos(cargar_prestamos(d), isbn)
        out == update_libro(cargar_libros(d), isbn, titulo, autor, editorial, anyo)
    IN IF ~PeticionDeAdministrador(d, current_user) THEN Result(d, 403)
       ELSE IF gp.exc # "none" THEN Result(d, 500)
       ELSE IF Truthy(gp.val) THEN Result(d, 409)
       ELSE IF out.exc = "LibroNoEncontradoError" THEN Result(d, 404)
       ELSE IF out.exc # "none" THEN Result(d, 500)
       ELSE Result(guardar_libros(d, out.self), 200)

main_remove_libro(d, current_user, isbn) ==
    LET gp == buscar_prestamos(cargar_prestamos(d), isbn)
        out == remove_libro(cargar_libros(d), isbn)
    IN IF ~PeticionDeAdministrador(d, current_user) THEN Result(d, 403)
       ELSE IF gp.exc # "none" THEN Result(d, 500)
       ELSE IF Truthy(gp.val) THEN Result(d, 409)
       ELSE IF out.exc = "LibroNoEncontradoError" THEN Result(d, 404)
       ELSE IF out.exc # "none" THEN Result(d, 500)
       ELSE Result(guardar_libros(d, out.self), 200)

main_add_prestamo(d, current_user, isbn, identificador, now) ==
    LET out == add_prestamo(cargar_prestamos(d), isbn, identificador, now)
    IN IF ~PeticionDeAdministrador(d, current_user) THEN Result(d, 403)
       ELSE IF out.exc = "LibroNoDisponibleError" THEN Result(d, 409)
       ELSE IF out.exc # "none" THEN Result(d, 500)
       ELSE Result(guardar_prestamos(d, out.self), 200)

\* mutant: the ledger is saved without the loan also when the caller is
\* not the borrower
main_remove_prestamo_guarda(d, current_user, isbn) ==
    LET out == remove_prestamo(cargar_prestamos(d), isbn, current_user)
    IN IF out.exc = "PrestamoNoEncontradoError" THEN Result(d, 404)
       ELSE IF out.exc = "DevolucionInvalidaError"
            THEN Result(guardar_prestamos(d, DictDel(out.self, isbn)), 403)
       ELSE Result(guardar_prestamos(d, out.self), 200)

\* the borrower passed is the identity of the token
main_remove_prestamo(d, current_user, isbn) ==
    LET out == remove_prestamo(cargar_prestamos(d), isbn, current_user)
    IN IF out.exc = "PrestamoNoEncontradoError" THEN Result(d, 404)
       ELSE IF out.exc = "DevolucionInvalidaError" THEN Result(d, 403)
       ELSE Result(guardar_prestamos(d, out.self), 200)

\* mutant: the new hash is assigned but the users are not saved
main_cambiar_password_sin_guardar(d, current_user, old_password, new_password) ==
    LET gu == cargar_usuarios(d)
        usuario_a_actualizar == buscar_usuario(gu, current_user).val
    IN IF ~validar_password(new_password) THEN Result(d, 400)
       ELSE IF ~Truthy(usuario_a_actualizar) THEN Result(d, 500)
       ELSE IF usuario_a_actualizar.hashed_password = hash_password(old_password)
            THEN Result(d, 200)
            ELSE Result(d, 400)

\* the handler compares and assigns the hash itself; the attribute of the
\* None returned for an unknown identity raises AttributeError
main_cambiar_password(d, current_user, old_password, new_password) ==
    LET gu == cargar_usuarios(d)
        usuario_a_actualizar == buscar_usuario(gu, current_user).val
    IN IF ~validar_password(new_password) THEN Result(d, 400)
       ELSE IF ~Truthy(usuario_a_actualizar) THEN Result(d, 500)
       ELSE IF usuario_a_actualizar.hashed_password = hash_password(old_password)
            THEN Result(guardar_usuarios(d,
                     PyList([gu.v EXCEPT ![FirstIdx(IdIdx(gu.v, current_user))] =
                         [@ EXCEPT !.hashed_password = hash_password(new_password)]])), 200)
            ELSE Result(d, 400)

\* ------------------------------------------------------------- sessions

\* table `token` (jti TEXT PRIMARY KEY, fecha DATETIME) of the database,
\* its rows in insertion order; the log file, its lines in order
TablaToken(filas) == [kind |-> "table", v |-> filas]
Texto(lineas) == [kind |-> "text", v |-> lineas]

\* the identifiers create_access_token gives to the tokens it issues
JTIs == 1..MaxLogins

\* cursor.execute("SELECT jti FROM token WHERE jti = ?"); token is not None
check_if_token_revoked(d, jti) ==
    \E n \in 1..Len(d[PATH_DB].v) : d[PATH_DB].v[n].jti = jti

\* mutant: INSERT OR IGNORE, a second logout is answered like the first
modify_token_ignora(d, jti, now) ==
    IF check_if_token_revoked(d, jti) THEN Result(d, 200)
    ELSE Result([d EXCEPT ![PATH_DB] =
                   TablaToken(Append(@.v, [jti |-> jti, fecha |-> now]))], 200)

\* body of modify_token: INSERT INTO token (jti, fecha); the primary key
\* makes the insertion of a jti of the table raise sqlite3.IntegrityError
modify_token(d, jti, now) ==
    IF check_if_token_revoked(d, jti) THEN Result(d, 409)
    ELSE Result([d EXCEPT ![PATH_DB] =
                   TablaToken(Append(@.v, [jti |-> jti, fecha |-> now]))], 200)

\* mutant: the blocklist is not consulted
jwt_required_sin_blocklist(d, jti, r) == r

\* @jwt_required(): the token's jti is passed to the blocklist loader
\* check_if_token_revoked before the handler runs, and a revoked token is
\* answered 401 without running it
jwt_required(d, jti, r) ==
    IF check_if_token_revoked(d, jti) THEN Result(d, 401) ELSE r

\* mutant: the password is not compared
main_login_sin_password(d, identificador, password, now) ==
    LET gu == cargar_usuarios(d)
        u == buscar_usuario(gu, identificador).val
        ok == Truthy(u)
        linea == [fecha |-> now, identificador |-> identificador,
                  status_msg |-> IF ok THEN "Éxito" ELSE "Fallido"]
    IN Result([d EXCEPT ![PATH_LOG] = Texto(Append(@.v, linea))],
              IF ok THEN 200 ELSE 401)

\* mutant: only the successful logins are logged
main_login_sin_fallidos(d, identificador, password, now) ==
    LET gu == cargar_usuarios(d)
        u == buscar_usuario(gu, identificador).val
        ok == Truthy(u) /\ u.hashed_password = hash_password(password)
        linea == [fecha |-> now, identificador |-> identificador, status_msg |-> "Éxito"]
    IN Result(IF ok THEN [d EXCEPT ![PATH_LOG] = Texto(Append(@.v, linea))] ELSE d,
              IF ok THEN 200 ELSE 401)

\* login: 200 and a token when the user exists and the hash of the
\* password is the stored one, 401 otherwise; either way a line is appended
\* to the log
main_login(d, identificador, password, now) ==
    LET gu == cargar_usuarios(d)
        u == buscar_usuario(gu, identificador).val
        ok == Truthy(u) /\ u.hashed_password = hash_password(password)
        linea == [fecha |-> now, identificador |-> identificador,
                  status_msg |-> IF ok THEN "Éxito" ELSE "Fallido"]
    IN Result([d EXCEPT ![PATH_LOG] = Texto(Append(@.v, linea))],
              IF ok THEN 200 ELSE 401)

\* --------------------------------------------------------------- export

\* the calls of comprime() explored, by order of arrival of the request
Exportaciones == {1, 2}

\* funciones = [to_json, to_xml, to_bibtex, to_csv], by the extension of
\* the file each one writes in temp_dir
Formatos == {"json", "xml", "bib", "csv"}
\* the order in which comprime adds the files to the archive
OrdenZip == <<"json", "xml", "csv", "bib">>

SinExportar ==
    [pc |-> "idle", procesos |-> [f \in Formatos |-> "none"], zip_file |-> -1]

\* the directory before any export or report: no file, no archive, no PDF
TempVacio ==
    [archivos |-> [f \in Formatos |-> Absent],
     zips |-> [n \in 0..MaxSegundos |-> Absent],
     pdfs |-> <<>>]

\* what a writer reads: GestorLibros() and `for l in gl`, which calls
\* gl[0], gl[1], ... until IndexError; a dict in place of the list raises
\* KeyError at gl[0]. to_bibtex runs over range(len(gl)) and so raises
\* only when the dict has an entry.
LeeLibros(d, f) ==
    LET gl == cargar_libros(d)
    IN IF gl.kind = "list" THEN Outcome(gl, "none", gl)
       ELSE IF f = "bib" /\ Len(gl.v) = 0 THEN Outcome(gl, "none", PyList(<<>>))
       ELSE Outcome(gl, "KeyError", None)

\* os.path.join(temp_dir, 'biblioteca.' + f) with temp_dir =
\* tempfile.gettempdir(): the same directory for every call of comprime
RutaArchivo(e, f) == <<"gettempdir", f>>

\* a file written by writer `f` of export `e`: its text is the rendering in
\* format f of the books the writer loaded ("completo"), or what a writer
\* that raised after open(..., 'w') left: nothing ("vacio", to_json) or the
\* header row ("cabecera", to_csv)
Archivo(e, f, gl, texto) ==
    [kind |-> "file", origen |-> e, formato |-> f, libros |-> gl.v, texto |-> texto]

\* to_json, to_xml, to_bibtex or to_csv run in a process of export e over
\* storage d and directory t; oserror: open() of the file fails. The
\* result is the directory left and whether the process ended normally.
Escribe(d, t, e, f, oserror) ==
    LET r == LeeLibros(d, f)
        deja(a) == [t EXCEPT !.archivos[f] = a]
    IN IF oserror THEN [temp |-> t, fin |-> "failed"]
       ELSE IF r.exc = "none"
            THEN [temp |-> deja(Archivo(e, f, r.val, "completo")), fin |-> "done"]
       ELSE IF f = "json"
            THEN [temp |-> deja(Archivo(e, f, PyList(<<>>), "vacio")), fin |-> "failed"]
       ELSE IF f = "csv"
            THEN [temp |-> deja(Archivo(e, f, PyList(<<>>), "cabecera")), fin |-> "failed"]
       ELSE [temp |-> t, fin |-> "failed"]

\* mutant: only the process started last is joined
Terminados_solo_ultimo(x) == x.procesos["csv"] # "running"

\* for p in procesos: p.join() has returned for every process
Terminados(x) == \A f \in Formatos : x.procesos[f] # "running"

\* the files archive.write adds, in order, until one does not exist
RECURSIVE Miembros(_, _)
Miembros(t, n) ==
    IF n > Len(OrdenZip) \/ t.archivos[OrdenZip[n]] = Absent THEN <<>>
    ELSE <<t.archivos[OrdenZip[n]]>> \o Miembros(t, n + 1)

\* the archive step of export e at time `now`: ZipFile(zip_file, "w")
\* creates or truncates the archive named after the second, archive.write
\* raises FileNotFoundError at the first file that does not exist
Archiva(t, e, now) ==
    LET miembros == Miembros(t, 1)
    IN [temp |-> [t EXCEPT !.zips[now] = [kind |-> "zip", origen |-> e, miembros |-> miembros]],
        exc |-> IF Len(miembros) = Len(OrdenZip) THEN "none" ELSE "FileNotFoundError",
        zip_file |-> now]

\* -------------------------------------------------------- export formats

\* a text is the sequence of its pieces: every character of a field value
\* is a piece of its own, the literals the writers emit around the values
\* are pieces too; field values are sequences of characters
At(t, i) == IF i >= 1 /\ i <= Len(t) THEN t[i] ELSE "EOF"
Blancos == {"\n", "\t", " ", "  ", "    "}
RECURSIVE SaltaBlancos(_, _)
SaltaBlancos(t, i) == IF At(t, i) \in Blancos THEN SaltaBlancos(t, i + 1) ELSE i
RECURSIVE Concat(_)
Concat(ss) == IF Len(ss) = 0 THEN <<>> ELSE Head(ss) \o Concat(Tail(ss))
NoLeido == [ok |-> FALSE, val |-> <<>>, next |-> 0]
Leido(val, next) == [ok |-> TRUE, val |-> val, next |-> next]

\* the (isbn, autor, editorial, anyo) of the books of a list
TuplasDe(ls) == {<<ls[n].isbn, ls[n].autor, ls[n].editorial, ls[n].anyo>> : n \in 1..Len(ls)}

\* -- JSON: json.dumps([l.to_dict() for l in gl], indent=2)
ClavesJson == <<"isbn", "titulo", "autor", "editorial", "anyo">>
\* a str as json.dumps writes it: between quotes, with \" and \\ escaped
JsonStr(v) ==
    <<"\"">> \o Concat([n \in 1..Len(v) |->
                          IF v[n] \in {"\"", "\\"} THEN <<"\\", v[n]>> ELSE <<v[n]>>])
      \o <<"\"">>
JsonObj(l) ==
    LET d == [isbn |-> l.isbn, titulo |-> l.titulo, autor |-> l.autor,
              editorial |-> l.editorial, anyo |-> l.anyo]
    IN <<"{">> \o Concat([n \in 1..Len(ClavesJson) |->
                   <<"\n", "    ">> \o JsonStr(<<ClavesJson[n]>>) \o <<":", " ">>
                     \o JsonStr(d[ClavesJson[n]])
                     \o (IF n < Len(ClavesJson) THEN <<",">> ELSE <<>>)])
         \o <<"\n", "  ", "}">>
to_json(ls) ==
    IF Len(ls) = 0 THEN <<"[", "]">>
    ELSE <<"[">> \o Concat([n \in 1..Len(ls) |->
                     <<"\n", "  ">> \o JsonObj(ls[n])
                       \o (IF n < Len(ls) THEN <<",">> ELSE <<>>)])
           \o <<"\n", "]">>

\* json.loads of such a text
RECURSIVE JsonChars(_, _, _)
JsonChars(t, i, acc) ==
    IF At(t, i) = "EOF" THEN NoLeido
    ELSE IF At(t, i) = "\"" THEN Leido(acc, i + 1)
    ELSE IF At(t, i) = "\\"
         THEN IF At(t, i + 1) \in {"\"", "\\"}
              THEN JsonChars(t, i + 2, Append(acc, t[i + 1])) ELSE NoLeido
    ELSE JsonChars(t, i + 1, Append(acc, t[i]))
JsonLeeStr(t, i) == IF At(t, i) = "\"" THEN JsonChars(t, i + 1, <<>>) ELSE NoLeido
RECURSIVE JsonPares(_, _, _)
JsonPares(t, i, acc) ==
    LET k == JsonLeeStr(t, SaltaBlancos(t, i))
        dos == SaltaBlancos(t, k.next)
        v == JsonLeeStr(t, SaltaBlancos(t, dos + 1))
        fin == SaltaBlancos(t, v.next)
    IN IF ~k.ok \/ At(t, dos) # ":" THEN NoLeido
       ELSE IF ~v.ok THEN NoLeido
       ELSE IF At(t, fin) = "," THEN JsonPares(t, fin + 1, Append(acc, <<k.val, v.val>>))
       ELSE IF At(t, fin) = "}" THEN Leido(Append(acc, <<k.val, v.val>>), fin + 1)
       ELSE NoLeido
RECURSIVE JsonObjs(_, _, _)
JsonObjs(t, i, acc) ==
    LET ini == SaltaBlancos(t, i)
        o == JsonPares(t, ini + 1, <<>>)
        fin == SaltaBlancos(t, o.next)
    IN IF At(t, ini) # "{" THEN NoLeido
       ELSE IF ~o.ok THEN NoLeido
       ELSE IF At(t, fin) = "," THEN JsonObjs(t, fin + 1, Append(acc, o.val))
       ELSE IF At(t, fin) = "]" /\ fin = Len(t) THEN Leido(Append(acc, o.val), fin + 1)
       ELSE NoLeido
json_loads(t) ==
    IF At(t, 1) # "[" THEN NoLeido
    ELSE IF At(t, SaltaBlancos(t, 2)) = "]" /\ SaltaBlancos(t, 2) = Len(t) THEN Leido(<<>>, Len(t) + 1)
    ELSE JsonObjs(t, 2, <<>>)
\* the value of key k of a parsed object
JsonGet(o, k) == LET hit == SelectSeq(o, LAMBDA par : par[1] = <<k>>) IN hit[1][2]
DeJson(t) ==
    LET r == json_loads(t)
    IN IF ~r.ok THEN [ok |-> FALSE, tuplas |-> {}]
       ELSE [ok |-> TRUE,
             tuplas |-> {<<JsonGet(r.val[n], "isbn"), JsonGet(r.val[n], "autor"),
                           JsonGet(r.val[n], "editorial"), JsonGet(r.val[n], "anyo")>> :
                         n \in 1..Len(r.val)}]

\* -- XML: the f-strings of to_xml, the values written as they are
CamposXml == <<"isbn", "autor", "editorial", "anyo">>
Abre == [isbn |-> "<isbn>", autor |-> "<autor>", editorial |-> "<editorial>", anyo |-> "<anyo>"]
Cierra == [isbn |-> "</isbn>", autor |-> "</autor>", editorial |-> "</editorial>", anyo |-> "</anyo>"]
XmlLibro(l) ==
    LET d == [isbn |-> l.isbn, autor |-> l.autor, editorial |-> l.editorial, anyo |-> l.anyo]
    IN <<"\t", "<libro>", "\n">>
         \o Concat([n \in 1..Len(CamposXml) |->
               <<"\t", "\t", Abre[CamposXml[n]]>> \o d[CamposXml[n]]
                  \o <<Cierra[CamposXml[n]], "\n">>])
         \o <<"\t", "</libro>", "\n">>
to_xml(ls) ==
    <<"<biblioteca>", "\n">> \o Concat([n \in 1..Len(ls) |-> XmlLibro(ls[n])])
      \o <<"</biblioteca>">>

\* an XML parser on such a text: `<` starts markup wherever it stands, `&`
\* starts an entity reference, which none of these texts completes
EmpiezaMarca(pieza) ==
    pieza \in {"<", "<biblioteca>", "</biblioteca>", "<libro>", "</libro>"}
                \cup {Abre[c] : c \in DOMAIN Abre} \cup {Cierra[c] : c \in DOMAIN Cierra}
RECURSIVE HastaMarca(_, _)
HastaMarca(t, i) ==
    IF At(t, i) = "EOF" \/ EmpiezaMarca(t[i]) THEN i ELSE HastaMarca(t, i + 1)
XmlCampo(t, i, campo) ==
    LET ini == SaltaBlancos(t, i)
        fin == HastaMarca(t, ini + 1)
        texto == SubSeq(t, ini + 1, fin - 1)
    IN IF At(t, ini) # Abre[campo] THEN NoLeido
       ELSE IF \E n \in 1..Len(texto) : texto[n] = "&" THEN NoLeido
       ELSE IF At(t, fin) # Cierra[campo] THEN NoLeido
       ELSE Leido(texto, fin + 1)
RECURSIVE XmlCampos(_, _, _, _)
XmlCampos(t, i, n, acc) ==
    IF n > Len(CamposXml) THEN Leido(acc, i)
    ELSE LET c == XmlCampo(t, i, CamposXml[n])
         IN IF ~c.ok THEN NoLeido ELSE XmlCampos(t, c.next, n + 1, Append(acc, c.val))
RECURSIVE XmlLibros(_, _, _)
XmlLibros(t, i, acc) ==
    LET ini == SaltaBlancos(t, i)
        l == XmlCampos(t, ini + 1, 1, <<>>)
        fin == SaltaBlancos(t, l.next)
    IN IF At(t, ini) = "</biblioteca>" /\ ini = Len(t) THEN Leido(acc, ini + 1)
       ELSE IF At(t, ini) # "<libro>" THEN NoLeido
       ELSE IF ~l.ok \/ At(t, fin) # "</libro>" THEN NoLeido
       ELSE XmlLibros(t, fin + 1, Append(acc, l.val))
DeXml(t) ==
    LET r == IF At(t, 1) = "<biblioteca>" THEN XmlLibros(t, 2, <<>>) ELSE NoLeido
    IN IF ~r.ok THEN [ok |-> FALSE, tuplas |-> {}]
       ELSE [ok |-> TRUE, tuplas |-> {r.val[n] : n \in 1..Len(r.val)}]

\* -- CSV: csv.writer(f) with its defaults (delimiter `,`, quotechar `"`,
\* doubled quotes, QUOTE_MINIMAL, lineterminator \r\n)
CsvCampo(v) ==
    IF \E n \in 1..Len(v) : v[n] \in {",", "\"", "\r", "\n"}
    THEN <<"\"">> \o Concat([n \in 1..Len(v) |->
                               IF v[n] = "\"" THEN <<"\"", "\"">> ELSE <<v[n]>>])
           \o <<"\"">>
    ELSE v
CsvFila(campos) ==
    Concat([n \in 1..Len(campos) |->
              CsvCampo(campos[n]) \o (IF n < Len(campos) THEN <<",">> ELSE <<>>)])
      \o <<"\r\n">>
to_csv(ls) ==
    CsvFila(<<<<"isbn">>, <<"autor">>, <<"editorial">>, <<"anyo">>>>)
      \o Concat([n \in 1..Len(ls) |->
                   CsvFila(<<ls[n].isbn, ls[n].autor, ls[n].editorial, ls[n].anyo>>)])

\* csv.reader with the same defaults; est: "inicio" of a field, inside a
\* "campo", inside "comillas", or "tras" a quote met inside quotes
RECURSIVE CsvLee(_, _, _, _, _, _)
CsvLee(t, i, est, campo, fila, filas) ==
    LET c == At(t, i)
        finCampo == CsvLee(t, i + 1, "inicio", <<>>, Append(fila, campo), filas)
        finFila == CsvLee(t, i + 1, "inicio", <<>>, <<>>, Append(filas, Append(fila, campo)))
    IN IF est = "comillas"
       THEN IF c = "EOF" THEN NoLeido
            ELSE IF c = "\"" THEN CsvLee(t, i + 1, "tras", campo, fila, filas)
            ELSE CsvLee(t, i + 1, "comillas", Append(campo, c), fila, filas)
       ELSE IF c = "EOF"
            THEN IF est = "inicio" /\ fila = <<>> THEN Leido(filas, i)
                 ELSE Leido(Append(filas, Append(fila, campo)), i)
       ELSE IF c = "," THEN finCampo
       ELSE IF c = "\r\n" THEN finFila
       ELSE IF c = "\"" /\ est = "inicio" THEN CsvLee(t, i + 1, "comillas", campo, fila, filas)
       ELSE IF c = "\"" /\ est = "tras"
            THEN CsvLee(t, i + 1, "comillas", Append(campo, c), fila, filas)
       ELSE CsvLee(t, i + 1, "campo", Append(campo, c), fila, filas)
DeCsv(t) ==
    LET r == CsvLee(t, 1, "inicio", <<>>, <<>>, <<>>)
    IN IF ~r.ok \/ Len(r.val) = 0 \/ \E n \in 1..Len(r.val) : Len(r.val[n]) # 4
       THEN [ok |-> FALSE, tuplas |-> {}]
       ELSE [ok |-> TRUE, tuplas |-> {r.val[n] : n \in 2..Len(r.val)}]

\* ------------------------------------------------------------ requests

\* the identities a token presented to the API may carry
Identidades == {"0", "1"}

\* the names and the book data sent with the requests explored
NombresPeticion == {"n1"}
LibrosPeticion == {l \in Libros : l.autor = "au1" /\ l.editorial = "ed1" /\ l.anyo = "2015"}

\* a request as recorded in resp: the handler, the identity of the token,
\* the isbn and identificador arguments ("" when it has none), the status
Peticion(op, current_user, isbn, identificador, r) ==
    [op |-> op, current_user |-> current_user, isbn |-> isbn,
     identificador |-> identificador, status |-> r.status, jti |-> 0]

API_add_usuario ==
    \E current_user \in Identidades, identificador \in Identidades,
       nombre \in NombresPeticion, apellido1 \in Apellidos1, apellido2 \in Apellidos2, password \in Passwords,
       administrador \in {"si", "no"} :
        LET r == main_add_usuario(disk, current_user, identificador, nombre, apellido1,
                                  apellido2, password, administrador)
        IN /\ Len(cargar_usuarios(disk).v) < MaxUsuarios
           /\ disk' = r.disk
           /\ resp' = Peticion("add_usuario", current_user, "", identificador, r)
           /\ UNCHANGED <<hilos, exports, temp, emitidos, prestamos, libros, usuarios, ret, reloj>>

API_update_usuario ==
    \E current_user \in Identidades, nombre \in NombresPeticion,
       apellido1 \in Apellidos1, apellido2 \in Apellidos2 :
        LET r == main_update_usuario(disk, current_user, nombre, apellido1, apellido2)
        IN /\ disk' = r.disk
           /\ resp' = Peticion("update_usuario", current_user, "", "", r)
           /\ UNCHANGED <<hilos, exports, temp, emitidos, prestamos, libros, usuarios, ret, reloj>>

API_remove_usuario ==
    \E current_user \in Identidades, identificador \in Identidades :
        LET r == main_remove_usuario(disk, current_user, identificador)
        IN /\ disk' = r.disk
           /\ resp' = Peticion("remove_usuario", current_user, "", identificador, r)
           /\ UNCHANGED <<hilos, exports, temp, emitidos, prestamos, libros, usuarios, ret, reloj>>

API_add_libro ==
    \E current_user \in Identidades, isbn \in ISBNs :
        \E peticion \in ({l \in LibrosPeticion : l.isbn = isbn} \X {[kind |-> "ConnectionError"]})
                          \cup ({None} \X Respuestas) :
            LET r == main_add_libro(disk, current_user, isbn, peticion[1], peticion[2])
            IN /\ Len(cargar_libros(disk).v) < MaxLibros
               /\ disk' = r.disk
               /\ resp' = Peticion("add_libro", current_user, isbn, "", r)
               /\ UNCHANGED <<hilos, exports, temp, emitidos, prestamos, libros, usuarios, ret, reloj>>

\* POST /libro with a field missing, so that the service is asked; the
\* answer of the service is recorded with the request
API_add_libro_por_isbn ==
    \E current_user \in Identidades, isbn \in ISBNs, respuesta \in Respuestas :
        LET r == main_add_libro(disk, current_user, isbn, None, respuesta)
        IN /\ Len(cargar_libros(disk).v) < MaxLibros
           /\ disk' = r.disk
           /\ resp' = [op |-> "add_libro", current_user |-> current_user, isbn |-> isbn,
                       identificador |-> "", respuesta |-> respuesta,
                       status |-> r.status, jti |-> 0]
           /\ UNCHANGED <<hilos, exports, temp, emitidos, prestamos, libros, usuarios, ret, reloj>>

API_update_libro ==
    \E current_user \in Identidades, libro \in LibrosPeticion :
        LET r == main_update_libro(disk, current_user, libro.isbn, libro.titulo,
                                   libro.autor, libro.editorial, libro.anyo)
        IN /\ disk' = r.disk
           /\ resp' = Peticion("update_libro", current_user, libro.isbn, "", r)
           /\ UNCHANGED <<hilos, exports, temp, emitidos, prestamos, libros, usuarios, ret, reloj>>

API_remove_libro ==
    \E current_user \in Identidades, isbn \in ISBNs :
        LET r == main_remove_libro(disk, current_user, isbn)
        IN /\ disk' = r.disk
           /\ resp' = Peticion("remove_libro", current_user, isbn, "", r)
           /\ UNCHANGED <<hilos, exports, temp, emitidos, prestamos, libros, usuarios, ret, reloj>>

API_add_prestamo ==
    \E current_user \in Identidades, isbn \in ISBNs, identificador \in Identidades :
        LET r == main_add_prestamo(disk, current_user, isbn, identificador, reloj)
        IN /\ disk' = r.disk
           /\ resp' = Peticion("add_prestamo", current_user, isbn, identificador, r)
           /\ UNCHANGED <<hilos, exports, temp, emitidos, prestamos, libros, usuarios, ret, reloj>>

API_remove_prestamo ==
    \E current_user \in Identidades, isbn \in ISBNs :
        LET r == main_remove_prestamo(disk, current_user, isbn)
        IN /\ disk' = r.disk
           /\ resp' = Peticion("remove_prestamo", current_user, isbn, "", r)
           /\ UNCHANGED <<hilos, exports, temp, emitidos, prestamos, libros, usuarios, ret, reloj>>

API_cambiar_password ==
    \E current_user \in Identidades, old_password \in Passwords, new_password \in Passwords :
        LET r == main_cambiar_password(disk, current_user, old_password, new_password)
        IN /\ disk' = r.disk
           /\ resp' = Peticion("cambiar_password", current_user, "", "", r)
           /\ UNCHANGED <<hilos, exports, temp, emitidos, prestamos, libros, usuarios, ret, reloj>>

\* the users written by init.py: the super-administrator '0' and the
\* basic user '1'
\* ---------------------------------------- calls on the revocation table

Jti(jti) == [kind |-> "jti", v |-> jti]
Respuesta(status) == [kind |-> "response", status |-> status]

DB_check_if_token_revoked ==
    \E jti \in JTIs :
        /\ ret' = Call("check_if_token_revoked", "", "", Jti(jti),
                       Outcome(None, "none", PyBool(check_if_token_revoked(disk, jti))))
        /\ UNCHANGED <<hilos, exports, temp, prestamos, libros, usuarios, reloj, disk, resp, emitidos>>

DB_modify_token ==
    \E jti \in JTIs :
        LET r == modify_token(disk, jti, reloj)
        IN /\ disk' = r.disk
           /\ ret' = Call("modify_token", "", "", Jti(jti),
                          Outcome(None, "none", Respuesta(r.status)))
           /\ UNCHANGED <<hilos, exports, temp, prestamos, libros, usuarios, reloj, resp, emitidos>>

\* ------------------------------------------------- requests with a token

PeticionConToken(op, token, isbn, identificador, r) ==
    [Peticion(op, token.sub, isbn, identificador, r) EXCEPT !.jti = token.jti]

\* the tokens a client can present: those issued by a login
Tokens == {emitidos[n] : n \in 1..Len(emitidos)}

\* the book of the requests made with a token
ISBNsSesion == {"978-1"}
LibrosSesion == {l \in LibrosPeticion : l.isbn \in ISBNsSesion /\ l.titulo = "t1"}

\* the credentials tried at the login: those of the administrator, those
\* of the user, the user with the administrator's password, and an
\* identifier nobody has
Credenciales ==
    {<<"0", <<"A", "b", "c", "d", "e", "f", "1", "!">>>>,
     <<"1", <<"Z", "y", "x", "w", "v", "u", "9", "$">>>>,
     <<"1", <<"A", "b", "c", "d", "e", "f", "1", "!">>>>,
     <<"2", <<"A", "b", "c", "d", "e", "f", "1", "!">>>>}

Sesion_login ==
    \E credencial \in Credenciales :
        LET identificador == credencial[1]
            r == main_login(disk, identificador, credencial[2], reloj)
        IN /\ Len(disk[PATH_LOG].v) < MaxLogins
           /\ disk' = r.disk
           /\ emitidos' = IF r.status = 200
                          THEN Append(emitidos, [jti |-> Len(emitidos) + 1,
                                                 sub |-> identificador])
                          ELSE emitidos
           /\ resp' = [op |-> "login", current_user |-> "", isbn |-> "",
                       identificador |-> identificador, password |-> credencial[2],
                       status |-> r.status, jti |-> 0]
           /\ UNCHANGED <<hilos, exports, temp, prestamos, libros, usuarios, ret, reloj>>

Sesion_logout ==
    \E token \in Tokens :
        LET r == jwt_required(disk, token.jti, modify_token(disk, token.jti, reloj))
        IN /\ disk' = r.disk
           /\ resp' = PeticionConToken("logout", token, "", "", r)
           /\ UNCHANGED <<hilos, exports, temp, prestamos, libros, usuarios, ret, reloj, emitidos>>

Sesion_update_usuario ==
    \E token \in Tokens, nombre \in NombresPeticion,
       apellido1 \in Apellidos1, apellido2 \in Apellidos2 :
        LET r == jwt_required(disk, token.jti,
                     main_update_usuario(disk, token.sub, nombre, apellido1, apellido2))
        IN /\ disk' = r.disk
           /\ resp' = PeticionConToken("update_usuario", token, "", "", r)
           /\ UNCHANGED <<hilos, exports, temp, prestamos, libros, usuarios, ret, reloj, emitidos>>

\* PUT /cambiar_password; the two passwords are recorded with the request
Sesion_cambiar_password ==
    \E token \in Tokens, old_password \in Passwords, new_password \in Passwords :
        LET r == jwt_required(disk, token.jti,
                     main_cambiar_password(disk, token.sub, old_password, new_password))
        IN /\ disk' = r.disk
           /\ resp' = [op |-> "cambiar_password", current_user |-> token.sub, isbn |-> "",
                       identificador |-> "", old_password |-> old_password,
                       new_password |-> new_password, status |-> r.status, jti |-> token.jti]
           /\ UNCHANGED <<hilos, exports, temp, prestamos, libros, usuarios, ret, reloj, emitidos>>

Sesion_add_libro ==
    \E token \in Tokens, libro \in LibrosSesion :
        LET r == jwt_required(disk, token.jti,
                     main_add_libro(disk, token.sub, libro.isbn, libro,
                                    [kind |-> "ConnectionError"]))
        IN /\ Len(cargar_libros(disk).v) < MaxLibros
           /\ disk' = r.disk
           /\ resp' = PeticionConToken("add_libro", token, libro.isbn, "", r)
           /\ UNCHANGED <<hilos, exports, temp, prestamos, libros, usuarios, ret, reloj, emitidos>>

Sesion_add_prestamo ==
    \E token \in Tokens, isbn \in ISBNsSesion, identificador \in Identidades :
        LET r == jwt_required(disk, token.jti,
                     main_add_prestamo(disk, token.sub, isbn, identificador, reloj))
        IN /\ disk' = r.disk
           /\ resp' = PeticionConToken("add_prestamo", token, isbn, identificador, r)
           /\ UNCHANGED <<hilos, exports, temp, prestamos, libros, usuarios, ret, reloj, emitidos>>

\* DELETE /usuario with a token
Sesion_remove_usuario ==
    \E token \in Tokens, identificador \in Identidades :
        LET r == jwt_required(disk, token.jti,
                     main_remove_usuario(disk, token.sub, identificador))
        IN /\ disk' = r.disk
           /\ resp' = PeticionConToken("remove_usuario", token, "", identificador, r)
           /\ UNCHANGED <<hilos, exports, temp, prestamos, libros, usuarios, ret, reloj, emitidos>>

\* POST /usuario/<identificador> with a token
Sesion_add_usuario ==
    \E token \in Tokens, identificador \in Identidades,
       password \in {<<"Z", "y", "x", "w", "v", "u", "9", "$">>},
       administrador \in {"si", "no"} :
        LET r == jwt_required(disk, token.jti,
                     main_add_usuario(disk, token.sub, identificador, "n2", "p1", "s1",
                                      password, administrador))
        IN /\ disk' = r.disk
           /\ resp' = PeticionConToken("add_usuario", token, "", identificador, r)
           /\ UNCHANGED <<hilos, exports, temp, prestamos, libros, usuarios, ret, reloj, emitidos>>

\* DELETE /prestamo with a token
Sesion_remove_prestamo ==
    \E token \in Tokens, isbn \in ISBNsSesion :
        LET r == jwt_required(disk, token.jti, main_remove_prestamo(disk, token.sub, isbn))
        IN /\ disk' = r.disk
           /\ resp' = PeticionConToken("remove_prestamo", token, isbn, "", r)
           /\ UNCHANGED <<hilos, exports, temp, prestamos, libros, usuarios, ret, reloj, emitidos>>

\* ------------------------------------------------------ export pipeline

\* comprime() of request e starts its four processes
Exp_start ==
    \E e \in Exportaciones :
        /\ exports[e].pc = "idle"
        /\ \A antes \in Exportaciones : antes < e => exports[antes].pc # "idle"
        /\ exports' = [exports EXCEPT ![e] =
                         [pc |-> "join", procesos |-> [f \in Formatos |-> "running"],
                          zip_file |-> -1]]
        /\ UNCHANGED <<hilos, prestamos, libros, usuarios, ret, reloj, disk, resp, emitidos, temp>>

\* one writer process runs to its end
Exp_proceso ==
    \E e \in Exportaciones, f \in Formatos, oserror \in BOOLEAN :
        LET r == Escribe(disk, temp, e, f, oserror)
        IN /\ exports[e].procesos[f] = "running"
           /\ temp' = r.temp
           /\ exports' = [exports EXCEPT ![e].procesos[f] = r.fin]
           /\ UNCHANGED <<hilos, prestamos, libros, usuarios, ret, reloj, disk, resp, emitidos>>

\* after the joins, comprime() builds the archive and returns its path, or
\* raises and exportar answers 500
Exp_zip ==
    \E e \in Exportaciones :
        LET r == Archiva(temp, e, reloj)
        IN /\ exports[e].pc = "join"
           /\ Terminados(exports[e])
           /\ temp' = r.temp
           /\ exports' = [exports EXCEPT ![e].pc = IF r.exc = "none" THEN "returned" ELSE "raised",
                                         ![e].zip_file = IF r.exc = "none" THEN r.zip_file ELSE -1]
           /\ UNCHANGED <<hilos, prestamos, libros, usuarios, ret, reloj, disk, resp, emitidos>>

\* an administrator adds a book while exports run
Exp_add_libro ==
    \E libro \in LibrosSesion :
        LET r == main_add_libro(disk, "0", libro.isbn, libro, [kind |-> "ConnectionError"])
        IN /\ Len(cargar_libros(disk).v) < MaxLibros
           /\ r.status = 200
           /\ disk' = r.disk
           /\ resp' = Peticion("add_libro", "0", libro.isbn, "", r)
           /\ UNCHANGED <<hilos, prestamos, libros, usuarios, ret, reloj, emitidos, exports, temp>>

\* a second passes
Exp_tick ==
    /\ reloj < MaxSegundos
    /\ reloj' = reloj + 1
    /\ UNCHANGED <<hilos, prestamos, libros, usuarios, ret, disk, resp, emitidos, exports, temp>>

\* ------------------------------------------- export and re-import

\* field values: plain, with the CSV delimiter, a quote, markup
\* characters of XML, and empty
ValoresCampo == {<<"a">>, <<"a", ",", "b">>, <<"\"">>, <<"<", "b">>, <<"&">>, <<>>}
LibrosTexto ==
    {Libro(i, <<"t">>, a, e, y) : i \in {<<"1">>, <<",">>},
                                  a \in ValoresCampo, e \in ValoresCampo, y \in ValoresCampo}
\* the catalogs exported: empty, one book, and one book followed by a plain one
Catalogos ==
    {<<>>} \cup {<<l>> : l \in LibrosTexto}
           \cup {<<l, Libro(<<"2">>, <<"t">>, <<"a">>, <<"a">>, <<"a">>)>> : l \in LibrosTexto}

\* the three files written from one catalog are read back
Exp_ida_y_vuelta ==
    \E ls \in Catalogos :
        /\ ret.op = "init"
        /\ ret' = Call("ida_y_vuelta", "", "", PyList(ls),
                       Outcome(None, "none",
                               [kind |-> "importado", json |-> DeJson(to_json(ls)),
                                xml |-> DeXml(to_xml(ls)), csv |-> DeCsv(to_csv(ls))]))
        /\ UNCHANGED <<hilos, exports, temp, emitidos, prestamos, libros, usuarios, reloj, disk, resp>>

UsuariosIniciales ==
    PyList(<<Usuario("Administrador", "0", "admin", "admin", "admin",
                     hash_password(<<"A", "b", "c", "d", "e", "f", "1", "!">>)),
             Usuario("Usuario", "1", "user", "user", "user",
                     hash_password(<<"Z", "y", "x", "w", "v", "u", "9", "$">>))>>)

NoPeticion ==
    [op |-> "init", current_user |-> "", isbn |-> "", identificador |-> "", status |-> 0, jti |-> 0]

\* ------------------------------------------------ concurrent requests

\* app.run serves each request on its own thread; a thread runs the handler
\* of POST /prestamo, whose load, open for writing and dump are separate
\* steps that the other thread's steps may come between
Hilos == {1, 2}

HiloLibre ==
    [pc |-> "libre", n |-> 0, op |-> "", current_user |-> "", isbn |-> "", identificador |-> "",
     cargado |-> None, gp |-> None, status |-> 0]

\* GestorPrestamos(): pickle.load of a file of length zero raises EOFError,
\* which cargar_prestamos does not catch
lee_prestamos(d) ==
    IF d[PATH_DATA] = Vacio THEN Outcome(None, "EOFError", None)
    ELSE Outcome(None, "none", cargar_prestamos(d))

\* the administrator check and gp = GestorPrestamos()
Hilo_cargar(t) ==
    \E current_user \in Identidades, isbn \in ISBNs, identificador \in Identidades :
        LET h == [hilos[t] EXCEPT !.n = @ + 1, !.op = "add_prestamo",
                                  !.current_user = current_user, !.isbn = isbn,
                                  !.identificador = identificador, !.cargado = None, !.gp = None]
            out == lee_prestamos(disk)
        IN /\ hilos[t].pc = "libre"
           /\ hilos[t].n < MaxPeticiones
           /\ hilos' = [hilos EXCEPT ![t] =
                  IF ~PeticionDeAdministrador(disk, current_user) THEN [h EXCEPT !.status = 403]
                  ELSE IF out.exc # "none" THEN [h EXCEPT !.status = 500]
                  ELSE [h EXCEPT !.pc = "abrir", !.cargado = out.val, !.gp = out.val, !.status = 0]]
           /\ UNCHANGED <<prestamos, libros, usuarios, ret, reloj, disk, resp, emitidos, exports, temp>>

\* gp.add_prestamo(isbn, identificador) and, in guardar_prestamos, the
\* open(PATH_DATA, 'wb') that truncates the file
Hilo_abrir(t) ==
    LET h == hilos[t]
        out == add_prestamo(h.gp, h.isbn, h.identificador, reloj)
    IN /\ h.pc = "abrir"
       /\ IF out.exc = "LibroNoDisponibleError"
          THEN /\ hilos' = [hilos EXCEPT ![t] = [h EXCEPT !.pc = "libre", !.status = 409]]
               /\ UNCHANGED disk
          ELSE IF out.exc # "none"
          THEN /\ hilos' = [hilos EXCEPT ![t] = [h EXCEPT !.pc = "libre", !.status = 500]]
               /\ UNCHANGED disk
          ELSE /\ hilos' = [hilos EXCEPT ![t] = [h EXCEPT !.pc = "volcar", !.gp = out.self]]
               /\ disk' = [disk EXCEPT ![PATH_DATA] = Vacio]
       /\ UNCHANGED <<prestamos, libros, usuarios, ret, reloj, resp, emitidos, exports, temp>>

\* pickle.dump(self.__prestamos, f), flushed when the with block closes the
\* file, and the response
Hilo_volcar(t) ==
    LET h == hilos[t]
    IN /\ h.pc = "volcar"
       /\ disk' = guardar_prestamos(disk, h.gp)
       /\ hilos' = [hilos EXCEPT ![t] = [h EXCEPT !.pc = "libre", !.status = 200]]
       /\ UNCHANGED <<prestamos, libros, usuarios, ret, reloj, resp, emitidos, exports, temp>>

\* DELETE /usuario up to the test of the user's loans: the administrator
\* check, gp = GestorPrestamos() and gp.buscar_prestamos_usuario; the users
\* loaded stay with the thread
Hilo_comprobar_usuario(t) ==
    \E current_user \in Identidades, identificador \in Identidades :
        LET h == [hilos[t] EXCEPT !.n = @ + 1, !.op = "remove_usuario",
                                  !.current_user = current_user, !.isbn = "",
                                  !.identificador = identificador, !.cargado = None, !.gp = None]
            out == lee_prestamos(disk)
            suyos == buscar_prestamos_usuario(out.val, identificador)
        IN /\ hilos[t].pc = "libre"
           /\ hilos[t].n < MaxPeticiones
           /\ hilos' = [hilos EXCEPT ![t] =
                  IF ~PeticionDeAdministrador(disk, current_user) THEN [h EXCEPT !.status = 403]
                  ELSE IF out.exc # "none" THEN [h EXCEPT !.status = 500]
                  ELSE IF suyos.exc # "none" THEN [h EXCEPT !.status = 500]
                  ELSE IF Truthy(suyos.val) THEN [h EXCEPT !.status = 409]
                  ELSE [h EXCEPT !.pc = "borrar", !.cargado = cargar_usuarios(disk), !.status = 0]]
           /\ UNCHANGED <<prestamos, libros, usuarios, ret, reloj, disk, resp, emitidos, exports, temp>>

\* gu.remove_usuario(identificador), gu.guardar_usuarios() (the open and
\* the dump of the users file taken as one step) and the response
Hilo_borrar_usuario(t) ==
    LET h == hilos[t]
        out == remove_usuario(h.cargado, h.identificador)
    IN /\ h.pc = "borrar"
       /\ IF out.exc = "UsuarioNoEncontradoError"
          THEN /\ hilos' = [hilos EXCEPT ![t] = [h EXCEPT !.pc = "libre", !.status = 404]]
               /\ UNCHANGED disk
          ELSE /\ hilos' = [hilos EXCEPT ![t] = [h EXCEPT !.pc = "libre", !.status = 200]]
               /\ disk' = guardar_usuarios(disk, out.self)
       /\ UNCHANGED <<prestamos, libros, usuarios, ret, reloj, resp, emitidos, exports, temp>>

\* -------------------------------------------------------------- reports

\* a PDF by its path in tempfile.gettempdir() (the kind of report, whose it
\* is, and the second in the name of a loan listing) and the texts drawn
Pdf(tipo, de, hora, contenido) ==
    [filename |-> [tipo |-> tipo, de |-> de, hora |-> hora], contenido |-> contenido]

\* canvas.save() / doc.build(elements): the file of that name is replaced
Guarda(t, pdf) == [t EXCEPT !.pdfs = (pdf.filename :> pdf.contenido) @@ @]

\* the object passed afterwards, and the card; None has no identificador
generar_carne(usuario) ==
    IF usuario.kind \in {"Usuario", "Administrador"}
    THEN Outcome(usuario, "none",
                 Pdf("carne", usuario.identificador, -1,
                     <<usuario.identificador, usuario.nombre, usuario.apellido1, usuario.apellido2>>))
    ELSE Outcome(usuario, "AttributeError", None)

\* the object passed afterwards, and the sheet (no cover has been uploaded:
\* buscar_caratula finds no image)
generar_ficha(libro) ==
    IF libro.kind = "Libro"
    THEN Outcome(libro, "none",
                 Pdf("ficha", libro.isbn, -1,
                     <<libro.titulo, libro.autor, libro.editorial, libro.anyo, libro.isbn>>))
    ELSE Outcome(libro, "AttributeError", None)

\* mutant: the listing empties the ledger and saves it
generar_prestamos_vacia(d, now) ==
    Outcome(guardar_prestamos(d, PyDict(<<>>)), "none", Pdf("prestamos", "", now, <<>>))

\* the storage afterwards, and the listing: one row per loan in the order
\* of gp[0], gp[1], ... (list(self.__prestamos.items()), which a list does
\* not have); l.titulo of a book not found raises AttributeError, str(u) of
\* a user not found is 'None'. The texts of the model are shorter than 25
\* characters, so none is cut
generar_prestamos(d, now) ==
    LET gp == cargar_prestamos(d)
        gl == cargar_libros(d)
        gu == cargar_usuarios(d)
        l(n) == buscar_libro(gl, gp.v[n].k)
        u(n) == buscar_usuario(gu, gp.v[n].val.usuario).val
        fila(n) == [isbn |-> gp.v[n].k,
                    titulo |-> l(n).val.titulo,
                    usuario |-> gp.v[n].val.usuario,
                    nombre |-> IF Truthy(u(n)) THEN <<u(n).nombre, u(n).apellido1, u(n).apellido2>>
                               ELSE <<"None">>,
                    fecha |-> [strftime |-> "%d/%m/%Y", de |-> gp.v[n].val.fecha]]
    IN IF gp.kind # "dict" THEN Outcome(d, "AttributeError", None)
       ELSE IF \E n \in 1..Len(gp.v) : l(n).exc # "none" \/ ~Truthy(l(n).val)
       THEN Outcome(d, "AttributeError", None)
       ELSE Outcome(d, "none", Pdf("prestamos", "", now, [n \in 1..Len(gp.v) |-> fila(n)]))

\* GET /carne
INF_bajar_carne ==
    \E current_user \in Identidades :
        LET out == generar_carne(buscar_usuario(cargar_usuarios(disk), current_user).val)
        IN /\ temp' = IF out.exc = "none" THEN Guarda(temp, out.val) ELSE temp
           /\ resp' = Peticion("bajar_carne", current_user, "", "",
                               [status |-> IF out.exc = "none" THEN 200 ELSE 500])
           /\ UNCHANGED <<hilos, exports, disk, emitidos, prestamos, libros, usuarios, ret, reloj>>

\* GET /ficha
INF_bajar_ficha ==
    \E isbn \in ISBNs :
        LET l == buscar_libro(cargar_libros(disk), isbn)
            out == generar_ficha(l.val)
            status == IF l.exc # "none" THEN 500
                      ELSE IF ~Truthy(l.val) THEN 404
                      ELSE IF out.exc # "none" THEN 500 ELSE 200
        IN /\ temp' = IF status = 200 THEN Guarda(temp, out.val) ELSE temp
           /\ resp' = Peticion("bajar_ficha", "", isbn, "", [status |-> status])
           /\ UNCHANGED <<hilos, exports, disk, emitidos, prestamos, libros, usuarios, ret, reloj>>

\* GET /informe_prestamos
INF_bajar_informe_prestamos ==
    \E current_user \in Identidades :
        LET out == generar_prestamos(disk, reloj)
            status == IF ~PeticionDeAdministrador(disk, current_user) THEN 403
                      ELSE IF out.exc # "none" THEN 500 ELSE 200
        IN /\ disk' = IF status = 403 THEN disk ELSE out.self
           /\ temp' = IF status = 200 THEN Guarda(temp, out.val) ELSE temp
           /\ resp' = Peticion("bajar_informe_prestamos", current_user, "", "", [status |-> status])
           /\ UNCHANGED <<hilos, exports, emitidos, prestamos, libros, usuarios, ret, reloj>>

\* ---------------------------------------------------------------- Init

\* the managers as constructed over absent storage (cargar_* returns the
\* empty collection on FileNotFoundError)
Init ==
    /\ prestamos = PyDict(<<>>)
    /\ libros = PyList(<<>>)
    /\ usuarios = PyList(<<>>)
    /\ ret = NoCall
    /\ reloj = 0
    /\ disk = [path \in {PATH_DATA, PATH_USUARIOS, PATH_DB, PATH_LOG} |->
                 CASE path = PATH_USUARIOS -> UsuariosIniciales
                   [] path = PATH_DB -> TablaToken(<<>>)
                   [] path = PATH_LOG -> Texto(<<>>)
                   [] OTHER -> Absent]
    /\ resp = NoPeticion
    /\ emitidos = <<>>
    /\ exports = [e \in Exportaciones |-> SinExportar]
    /\ temp = TempVacio
    /\ hilos = [t \in Hilos |-> HiloLibre]

NextPrestamos ==
    \/ Tick
    \/ GP_buscar_prestamos
    \/ GP_buscar_prestamos_usuario
    \/ GP_add_prestamo
    \/ GP_remove_prestamo

SpecPrestamos == Init /\ [][NextPrestamos]_vars

NextLibros ==
    \/ GL_buscar_libro
    \/ GL_add_libro
    \/ GL_remove_libro
    \/ GL_update_libro

SpecLibros == Init /\ [][NextLibros]_vars

NextUsuarios ==
    \/ GU_buscar_usuario
    \/ GU_add_usuario
    \/ GU_remove_usuario
    \/ GU_update_usuario
    \/ GU_cambiar_password

SpecUsuarios == Init /\ [][NextUsuarios]_vars

NextTokens ==
    \/ Tick
    \/ DB_check_if_token_revoked
    \/ DB_modify_token

SpecTokens == Init /\ [][NextTokens]_vars

NextSesion ==
    \/ Sesion_login
    \/ Sesion_logout
    \/ Sesion_update_usuario
    \/ Sesion_add_libro
    \/ Sesion_add_prestamo

SpecSesion == Init /\ [][NextSesion]_vars

\* logins and password changes
NextClave ==
    \/ Sesion_login
    \/ Sesion_cambiar_password

SpecClave == Init /\ [][NextClave]_vars

\* accounts removed and created again while tokens issued before are used
NextCuentas ==
    \/ Sesion_login
    \/ Sesion_remove_usuario
    \/ Sesion_add_usuario
    \/ Sesion_update_usuario
    \/ Sesion_add_libro
    \/ Sesion_add_prestamo
    \/ Sesion_remove_prestamo

SpecCuentas == Init /\ [][NextCuentas]_vars

NextExport ==
    \/ Exp_start
    \/ Exp_proceso
    \/ Exp_zip
    \/ Exp_add_libro
    \/ Exp_tick

SpecExport == Init /\ [][NextExport]_vars

NextFormatos == Exp_ida_y_vuelta

SpecFormatos == Init /\ [][NextFormatos]_vars

NextPassword == GU_validar_password

SpecPassword == Init /\ [][NextPassword]_vars

\* the requests of main.py, one handled at a time
Next ==
    \/ API_add_usuario
    \/ API_update_usuario
    \/ API_remove_usuario
    \/ API_add_libro
    \/ API_update_libro
    \/ API_remove_libro
    \/ API_add_prestamo
    \/ API_remove_prestamo
    \/ API_cambiar_password

Spec == Init /\ [][Next]_vars

\* two threads, each handling POST /prestamo up to MaxPeticiones times
NextHilos ==
    \/ \E t \in Hilos : Hilo_cargar(t)
    \/ \E t \in Hilos : Hilo_abrir(t)
    \/ \E t \in Hilos : Hilo_volcar(t)

SpecHilos == Init /\ [][NextHilos]_vars

\* two threads, each handling POST /prestamo or DELETE /usuario
NextGuardas ==
    \/ \E t \in Hilos : Hilo_cargar(t)
    \/ \E t \in Hilos : Hilo_abrir(t)
    \/ \E t \in Hilos : Hilo_volcar(t)
    \/ \E t \in Hilos : Hilo_comprobar_usuario(t)
    \/ \E t \in Hilos : Hilo_borrar_usuario(t)

SpecGuardas == Init /\ [][NextGuardas]_vars

\* the three report requests among requests that change the catalog and
\* the ledger
NextInformes ==
    \/ API_add_libro
    \/ API_remove_libro
    \/ API_add_prestamo
    \/ API_remove_prestamo
    \/ INF_bajar_carne
    \/ INF_bajar_ficha
    \/ INF_bajar_informe_prestamos

SpecInformes == Init /\ [][NextInformes]_vars

\* books added by asking the service, among removals and loans
NextConsulta ==
    \/ API_add_libro_por_isbn
    \/ API_remove_libro
    \/ API_add_prestamo
    \/ API_remove_prestamo

SpecConsulta == Init /\ [][NextConsulta]_vars

\* ------------------------------------------------ circulation ledger

\* C1: whenever add_prestamo(i, u2) is called while a loan for i is on
\* record (held by anyone, u2 included), the call raises
\* LibroNoDisponibleError and the ledger is the same afterwards: the loan
\* for i keeps its borrower and its start timestamp.
C1_PrestadoNoDisponible ==
    [][(ret'.op = "add_prestamo" /\ DictHas(prestamos, ret'.isbn))
         => /\ ret'.exc = "LibroNoDisponibleError"
            /\ prestamos' = prestamos
            /\ DictGet(prestamos', ret'.isbn) = DictGet(prestamos, ret'.isbn)]_vars

\* C1 witness: a second add_prestamo by another user, at a later time, was
\* refused and the first loan is on record with its earlier timestamp
C1_Witness ==
    /\ ret.op = "add_prestamo"
    /\ ret.exc = "LibroNoDisponibleError"
    /\ DictHas(prestamos, ret.isbn)
    /\ DictGet(prestamos, ret.isbn).usuario # ret.identificador
    /\ DictGet(prestamos, ret.isbn).fecha < reloj

\* C2: on a loan of i held by u1, remove_prestamo(i, u2) with u2 # u1
\* raises DevolucionInvalidaError and leaves the ledger as it was;
\* remove_prestamo(i, u1) returns, after it buscar_prestamos(i) is None and
\* add_prestamo(i, u) succeeds for every u.  No loan leaves the ledger in a
\* step other than a remove_prestamo by its recorded borrower.
C2_DevolucionPorTitular ==
    [][/\ (ret'.op = "remove_prestamo" /\ DictHas(prestamos, ret'.isbn))
            => IF DictGet(prestamos, ret'.isbn).usuario # ret'.identificador
               THEN ret'.exc = "DevolucionInvalidaError" /\ prestamos' = prestamos
               ELSE /\ ret'.exc = "none"
                    /\ buscar_prestamos(prestamos', ret'.isbn).val = None
                    /\ \A u \in Identificadores :
                         LET again == add_prestamo(prestamos', ret'.isbn, u, reloj')
                         IN again.exc = "none" /\ DictGet(again.self, ret'.isbn).usuario = u
       /\ \A i \in ISBNs :
            (DictHas(prestamos, i) /\ ~DictHas(prestamos', i))
                => /\ ret'.op = "remove_prestamo"
                   /\ ret'.isbn = i
                   /\ ret'.identificador = DictGet(prestamos, i).usuario]_vars

\* C2 witness: a return by the borrower has just emptied the slot of the
\* book while another loan stays on record
C2_Witness ==
    /\ ret.op = "remove_prestamo"
    /\ ret.exc = "none"
    /\ ~DictHas(prestamos, ret.isbn)
    /\ Len(prestamos.v) > 0

\* C3: remove_prestamo(isbn, u) raises PrestamoNoEncontradoError whenever
\* no loan for isbn is on record, for every u, and the ledger is unchanged.
C3_SinPrestamoNoEncontrado ==
    [][(ret'.op = "remove_prestamo" /\ ~DictHas(prestamos, ret'.isbn))
         => ret'.exc = "PrestamoNoEncontradoError" /\ prestamos' = prestamos]_vars

\* C3 witness: a return of a book not on loan was refused for a user who
\* holds a loan of another book
C3_Witness ==
    /\ ret.op = "remove_prestamo"
    /\ ret.exc = "PrestamoNoEncontradoError"
    /\ Truthy(buscar_prestamos_usuario(prestamos, ret.identificador).val)

\* C4: per book, every step leaves the loan as it is, or takes it from
\* absent to a loan to u by a successful add_prestamo(i, u), or from a loan
\* to u to absent by a successful remove_prestamo(i, u); a book has at
\* most one loan on record.
C4_MaquinaDeEstados ==
    [][\A i \in ISBNs :
         LET antes == buscar_prestamos(prestamos, i).val
             despues == buscar_prestamos(prestamos', i).val
         IN /\ Cardinality(KeyIdx(prestamos'.v, i)) <= 1
            /\ \/ antes = despues
               \/ /\ antes = None
                  /\ ret'.op = "add_prestamo" /\ ret'.exc = "none" /\ ret'.isbn = i
                  /\ despues = Prestamo(ret'.identificador, reloj)
               \/ /\ antes # None /\ despues = None
                  /\ ret'.op = "remove_prestamo" /\ ret'.exc = "none" /\ ret'.isbn = i
                  /\ ret'.identificador = antes.usuario]_vars

\* C4 witness: both books are on loan, the one lent last at a later time
\* than the other
C4_Witness ==
    /\ ret.op = "add_prestamo"
    /\ ret.exc = "none"
    /\ Len(prestamos.v) = 2
    /\ prestamos.v[1].val.fecha < prestamos.v[2].val.fecha

\* ----------------------------------------------- cross-entity guards

\* what the managers find in storage `d`
EnDirectorio(d, identificador) ==
    Truthy(buscar_usuario(cargar_usuarios(d), identificador).val)
EnCatalogo(d, isbn) ==
    LET found == buscar_libro(cargar_libros(d), isbn)
    IN found.exc = "none" /\ Truthy(found.val)
EnPrestamo(d, isbn) ==
    LET found == buscar_prestamos(cargar_prestamos(d), isbn)
    IN found.exc = "none" /\ Truthy(found.val)
TienePrestamos(d, identificador) ==
    LET found == buscar_prestamos_usuario(cargar_prestamos(d), identificador)
    IN found.exc = "none" /\ Truthy(found.val)

\* C5: a DELETE /usuario request for a user who holds a loan fails (409
\* when an administrator asks, 403 otherwise) and changes nothing in
\* storage, and no step removes from the directory a user who holds a loan.
C5_UsuarioConPrestamos ==
    [][/\ (resp'.op = "remove_usuario" /\ TienePrestamos(disk, resp'.identificador))
            => /\ resp'.status = IF PeticionDeAdministrador(disk, resp'.current_user)
                                 THEN 409 ELSE 403
               /\ disk' = disk
       /\ \A u \in Identidades :
            (TienePrestamos(disk, u) /\ EnDirectorio(disk, u)) => EnDirectorio(disk', u)]_vars

\* C5 witness: an administrator's request to remove a user of the
\* directory who holds a loan was answered 409
C5_Witness ==
    /\ resp.op = "remove_usuario"
    /\ resp.status = 409
    /\ TienePrestamos(disk, resp.identificador)
    /\ EnDirectorio(disk, resp.identificador)

\* C6: in add(book i), addLoan(i, u1), remove(i), removeLoan(i, u1),
\* remove(i), as requests of an administrator: the loan of a book of the
\* catalog that is not on loan is recorded and the book stays in the
\* catalog; DELETE /libro of a book on loan is refused with 409 and the
\* book stays; DELETE /libro of a book not on loan is answered 200 and the
\* book is gone.
C6_BorrarLibroPrestado ==
    [][/\ (/\ resp'.op = "add_prestamo"
           /\ PeticionDeAdministrador(disk, resp'.current_user)
           /\ EnCatalogo(disk, resp'.isbn) /\ ~EnPrestamo(disk, resp'.isbn))
            => /\ resp'.status = 200
               /\ EnPrestamo(disk', resp'.isbn) /\ EnCatalogo(disk', resp'.isbn)
       /\ (/\ resp'.op = "remove_libro"
           /\ PeticionDeAdministrador(disk, resp'.current_user)
           /\ EnCatalogo(disk, resp'.isbn))
            => IF EnPrestamo(disk, resp'.isbn)
               THEN resp'.status = 409 /\ EnCatalogo(disk', resp'.isbn)
               ELSE resp'.status = 200 /\ ~EnCatalogo(disk', resp'.isbn)]_vars

\* C7: PUT /libro by an administrator for a book of the catalog is refused
\* with 409 while the book is on loan, leaving its title, author, publisher
\* and year as they were, and is answered 200 when the book is not on loan.
C7_EditarLibroPrestado ==
    [][(/\ resp'.op = "update_libro"
        /\ PeticionDeAdministrador(disk, resp'.current_user)
        /\ EnCatalogo(disk, resp'.isbn))
         => IF EnPrestamo(disk, resp'.isbn)
            THEN /\ resp'.status = 409
                 /\ buscar_libro(cargar_libros(disk'), resp'.isbn)
                      = buscar_libro(cargar_libros(disk), resp'.isbn)
            ELSE resp'.status = 200]_vars

\* ------------------------------------------------------------ catalog

\* C8: add_libro of a book whose ISBN is not in the catalog returns, and
\* buscar_libro of that ISBN then returns a book with the ISBN, title,
\* author, publisher and year passed in; after a remove_libro that
\* returned, buscar_libro of the ISBN returns None.
C8_AltaBuscaBaja ==
    [][/\ (ret'.op = "add_libro" /\ ~Truthy(buscar_libro(libros, ret'.isbn).val))
            => /\ ret'.exc = "none"
               /\ buscar_libro(libros', ret'.isbn).val = ret'.arg
       /\ (ret'.op = "remove_libro" /\ Truthy(buscar_libro(libros, ret'.isbn).val))
            => /\ ret'.exc = "none"
               /\ buscar_libro(libros', ret'.isbn).val = None]_vars

\* C8 witness: a book was added behind another one and is found with the
\* fields passed in
C8_Witness ==
    /\ ret.op = "add_libro"
    /\ ret.exc = "none"
    /\ Len(libros.v) = 2
    /\ buscar_libro(libros, ret.isbn).val = ret.arg
    /\ libros.v[1].titulo # ret.arg.titulo

\* C9: add_libro of a book whose ISBN is in the catalog raises
\* LibroYaExisteError and leaves the catalog as it was; after every add,
\* remove and update no two books of the catalog have the same ISBN.
C9_IsbnUnico ==
    [][/\ (ret'.op = "add_libro" /\ Truthy(buscar_libro(libros, ret'.isbn).val))
            => ret'.exc = "LibroYaExisteError" /\ libros' = libros
       /\ \A i \in ISBNs : Cardinality(IsbnIdx(libros'.v, i)) <= 1]_vars

\* C9 witness: a book with other fields and the ISBN of a book of the
\* catalog was refused
C9_Witness ==
    /\ ret.op = "add_libro"
    /\ ret.exc = "LibroYaExisteError"
    /\ Truthy(buscar_libro(libros, ret.isbn).val)
    /\ buscar_libro(libros, ret.isbn).val # ret.arg

\* ------------------------------------------------------- user directory

\* C10: add_usuario of a user whose identifier is in the directory raises
\* UsuarioYaExisteError and leaves the directory as it was (the user on
\* record keeps name, surnames, password hash and class); after every add,
\* remove, update and password change no two users have the same
\* identifier.
C10_IdentificadorUnico ==
    [][/\ (ret'.op = "add_usuario" /\ Truthy(buscar_usuario(usuarios, ret'.identificador).val))
            => /\ ret'.exc = "UsuarioYaExisteError"
               /\ usuarios' = usuarios
               /\ buscar_usuario(usuarios', ret'.identificador).val
                    = buscar_usuario(usuarios, ret'.identificador).val
       /\ \A i \in Identificadores : Cardinality(IdIdx(usuarios'.v, i)) <= 1]_vars

\* C10 witness: a user with another name, password hash and class and the
\* identifier of a user of the directory was refused
C10_Witness ==
    /\ ret.op = "add_usuario"
    /\ ret.exc = "UsuarioYaExisteError"
    /\ LET u == buscar_usuario(usuarios, ret.identificador).val
       IN /\ Truthy(u)
          /\ u.nombre # ret.arg.nombre
          /\ u.hashed_password # ret.arg.hashed_password
          /\ u.kind # ret.arg.kind

\* C11: cambiar_password(identificador, old, new) raises
\* UsuarioNoEncontradoError when no user has the identifier; returns False
\* and leaves the stored hash as it was when old differs from it; returns
\* True and stores new when old equals it; in all three cases every other
\* user is as before.
C11_CambiarPassword ==
    [][ret'.op = "cambiar_password"
        => LET u == buscar_usuario(usuarios, ret'.identificador).val
               despues == buscar_usuario(usuarios', ret'.identificador).val
           IN /\ ~Truthy(u)
                   => ret'.exc = "UsuarioNoEncontradoError" /\ usuarios' = usuarios
              /\ (Truthy(u) /\ ret'.arg.old # u.hashed_password)
                   => /\ ret'.exc = "none" /\ ret'.val = PyBool(FALSE)
                      /\ usuarios' = usuarios
              /\ (Truthy(u) /\ ret'.arg.old = u.hashed_password)
                   => /\ ret'.exc = "none" /\ ret'.val = PyBool(TRUE)
                      /\ despues = [u EXCEPT !.hashed_password = ret'.arg.new]
              /\ \A otro \in Identificadores \ {ret'.identificador} :
                   buscar_usuario(usuarios', otro).val = buscar_usuario(usuarios, otro).val]_vars

\* C11 witness: a password change returned True, the user now has the new
\* hash, different from the old one, and another user of the directory
\* still has the old one
C11_Witness ==
    /\ ret.op = "cambiar_password"
    /\ ret.val = PyBool(TRUE)
    /\ ret.arg.old # ret.arg.new
    /\ buscar_usuario(usuarios, ret.identificador).val.hashed_password = ret.arg.new
    /\ \E otro \in Identificadores \ {ret.identificador} :
         LET o == buscar_usuario(usuarios, otro).val
         IN Truthy(o) /\ o.hashed_password = ret.arg.old

\* C12: validar_password(password) is True exactly when the password has
\* at least 8 characters, among them a lowercase letter, an uppercase
\* letter, a digit and one of @$!%*?&, whatever its other characters are.
C12_ValidarPassword ==
    ret.op = "validar_password"
      => LET p == ret.arg.v
         IN (ret.val = PyBool(TRUE))
              <=> /\ Len(p) >= 8
                  /\ \E n \in 1..Len(p) : p[n] \in Minusculas
                  /\ \E n \in 1..Len(p) : p[n] \in Mayusculas
                  /\ \E n \in 1..Len(p) : p[n] \in Digitos
                  /\ \E n \in 1..Len(p) : p[n] \in Simbolos

\* ---------------------------------------------------- session revocation

FilasDe(d, jti) == SelectSeq(d[PATH_DB].v, LAMBDA fila : fila.jti = jti)

\* C14: a revoked jti stays revoked, with the same row, in every later
\* state; a request that presents a revoked token is answered 401 and
\* leaves the users' file and the books' and loans' file as they were.
C14_RevocacionPermanente ==
    [][/\ \A jti \in JTIs :
            check_if_token_revoked(disk, jti) => FilasDe(disk', jti) = FilasDe(disk, jti)
       /\ (resp'.jti # 0 /\ check_if_token_revoked(disk, resp'.jti))
            => /\ resp'.status = 401
               /\ disk'[PATH_USUARIOS] = disk[PATH_USUARIOS]
               /\ disk'[PATH_DATA] = disk[PATH_DATA]]_vars

\* C14 witness: an administrator's request to add a book that is not in
\* storage, made with a revoked token, was answered 401
C14_Witness ==
    /\ resp.op = "add_libro"
    /\ resp.status = 401
    /\ check_if_token_revoked(disk, resp.jti)
    /\ PeticionDeAdministrador(disk, resp.current_user)
    /\ disk[PATH_DATA] = Absent

\* ------------------------------------------------------ export pipeline

\* the step in which comprime() of export e leaves the joins and builds
\* the archive
PasoZip(e) == exports[e].pc = "join" /\ exports'[e].pc \in {"returned", "raised"}

\* C15: the archive of an export is built only when its four writer
\* processes have terminated, and none of them runs once it is built.
C15_ArchivoTrasLosCuatro ==
    [][\A e \in Exportaciones :
         /\ PasoZip(e) => \A f \in Formatos : exports[e].procesos[f] \in {"done", "failed"}
         /\ exports'[e].pc \in {"returned", "raised"}
              => \A f \in Formatos : exports'[e].procesos[f] # "running"]_vars

\* C15 witness: an export returned its archive after its four writers
\* ended, while another export still had a writer running
C15_Witness ==
    \E e \in Exportaciones, otra \in Exportaciones :
        /\ exports[e].pc = "returned"
        /\ \A f \in Formatos : exports[e].procesos[f] = "done"
        /\ \E f \in Formatos : exports[otra].procesos[f] = "running"

\* C16: comprime() returns an archive path only when its four writers
\* ended successfully, and every file of the archive was written, whole, by
\* a writer of this export.
C16_FalloDeUnEscritor ==
    [][\A e \in Exportaciones :
         (PasoZip(e) /\ exports'[e].pc = "returned")
           => /\ \A f \in Formatos : exports[e].procesos[f] = "done"
              /\ LET zip == temp'.zips[exports'[e].zip_file]
                 IN \A n \in 1..Len(zip.miembros) :
                      zip.miembros[n].origen = e /\ zip.miembros[n].texto = "completo"]_vars

\* C17: the four files of an archive that comprime() returns render the
\* same list of books.
C17_MismaLectura ==
    [][\A e \in Exportaciones :
         (PasoZip(e) /\ exports'[e].pc = "returned")
           => LET zip == temp'.zips[exports'[e].zip_file]
              IN \A n, k \in 1..Len(zip.miembros) :
                   zip.miembros[n].libros = zip.miembros[k].libros]_vars

\* C18: two calls of comprime() that return return different archive
\* paths.
C18_RutasDistintas ==
    \A e \in Exportaciones, otra \in Exportaciones :
        (e # otra /\ exports[e].pc = "returned" /\ exports[otra].pc = "returned")
          => exports[e].zip_file # exports[otra].zip_file

\* C19: two writer processes that are running, of the same export or of
\* two exports, write different files.
C19_ArchivosDisjuntos ==
    \A e \in Exportaciones, otra \in Exportaciones, f \in Formatos, g \in Formatos :
        (/\ <<e, f>> # <<otra, g>>
         /\ exports[e].procesos[f] = "running"
         /\ exports[otra].procesos[g] = "running")
          => RutaArchivo(e, f) # RutaArchivo(otra, g)

\* C20: the CSV, the XML and the JSON written from a catalog, read back,
\* each give the set of (isbn, autor, editorial, anyo) of the catalog,
\* whatever characters the values contain.
C20_IdaYVuelta ==
    ret.op = "ida_y_vuelta"
      => \A leido \in {ret.val.csv, ret.val.xml, ret.val.json} :
           leido.ok /\ leido.tuplas = TuplasDe(ret.arg.v)

\* ------------------------------------------------ concurrent requests

\* C21: a load of the ledger by one thread while another thread is saving
\* it returns a complete collection, the one on disk before the save or
\* the one being saved: it never finds the file empty or half written
C21_GuardadoAtomico ==
    [][\A t \in Hilos :
          (hilos[t].pc = "libre" /\ hilos'[t].n # hilos[t].n /\ hilos'[t].status # 403)
              => /\ hilos'[t].pc = "abrir"
                 /\ hilos'[t].cargado.kind = "dict"
                 /\ hilos'[t].cargado = cargar_prestamos(disk)]_vars

\* C23: when a thread completes its save, the file holds exactly that
\* thread's in-memory ledger: what it loaded plus its own loan, so the loan
\* of the other thread is in the file only if it was in what this thread
\* loaded
C23_UltimoGuardadoGana ==
    [][\A t \in Hilos :
          (hilos[t].pc = "volcar" /\ hilos'[t].pc = "libre")
              => /\ disk'[PATH_DATA] = hilos[t].gp
                 /\ \A i \in ISBNs :
                        DictHas(disk'[PATH_DATA], i)
                            => \/ /\ DictHas(hilos[t].cargado, i)
                                  /\ DictGet(disk'[PATH_DATA], i) = DictGet(hilos[t].cargado, i)
                               \/ /\ i = hilos[t].isbn
                                  /\ DictGet(disk'[PATH_DATA], i).usuario = hilos[t].identificador]_vars

\* both threads answered 200 to loans of different books and the file
\* holds only one of the two loans
C23_Witness ==
    \E t \in Hilos, u \in Hilos :
        /\ t # u
        /\ hilos[t].pc = "libre" /\ hilos[t].status = 200
        /\ hilos[u].pc = "libre" /\ hilos[u].status = 200
        /\ hilos[t].isbn # hilos[u].isbn
        /\ disk[PATH_DATA].kind = "dict"
        /\ DictHas(disk[PATH_DATA], hilos[t].isbn)
        /\ ~DictHas(disk[PATH_DATA], hilos[u].isbn)

\* ------------------------------------------------ independent snapshots

OpsLibros == {"add_libro", "update_libro", "remove_libro"}
OpsPrestamos == {"add_prestamo", "remove_prestamo"}
OpsUsuarios == {"add_usuario", "update_usuario", "remove_usuario", "cambiar_password"}

\* C22: a request that saves one manager leaves what the other two
\* managers load unchanged, and what the catalog and the ledger load is
\* what they themselves saved: a list of books for GestorLibros, a dict of
\* loans for GestorPrestamos
C22_InstantaneasIndependientes ==
    [][/\ (resp'.op \in OpsLibros /\ resp'.status = 200)
            => /\ cargar_prestamos(disk') = cargar_prestamos(disk)
               /\ cargar_usuarios(disk') = cargar_usuarios(disk)
       /\ (resp'.op \in OpsPrestamos /\ resp'.status = 200)
            => /\ cargar_libros(disk') = cargar_libros(disk)
               /\ cargar_usuarios(disk') = cargar_usuarios(disk)
       /\ (resp'.op \in OpsUsuarios /\ resp'.status = 200)
            => /\ cargar_libros(disk') = cargar_libros(disk)
               /\ cargar_prestamos(disk') = cargar_prestamos(disk)
       /\ cargar_libros(disk').kind = "list"
       /\ cargar_prestamos(disk').kind = "dict"]_vars

\* ---------------------------------------------------------------- login

\* C24: a login returns 200 and a token exactly when a user with the
\* presented identifier is in the directory and the hash of the presented
\* password is that user's stored hash; otherwise it returns 401 and no
\* token; the subject of the token is the presented identifier
C24_TokenTrasValidar ==
    [][resp'.op = "login" =>
          LET gu == cargar_usuarios(disk)
              ok == \E n \in 1..Len(gu.v) :
                        /\ gu.v[n].identificador = resp'.identificador
                        /\ gu.v[n].hashed_password = hash_password(resp'.password)
          IN /\ ok => /\ resp'.status = 200
                      /\ Len(emitidos') = Len(emitidos) + 1
                      /\ SubSeq(emitidos', 1, Len(emitidos)) = emitidos
                      /\ emitidos'[Len(emitidos')].sub = resp'.identificador
             /\ ~ok => /\ resp'.status = 401
                       /\ emitidos' = emitidos]_vars

\* a token was issued to the administrator and the login of user 1 with
\* the administrator's password was answered 401
C24_Witness ==
    /\ resp.op = "login"
    /\ resp.status = 401
    /\ resp.identificador = "1"
    /\ Len(emitidos) = 1
    /\ emitidos[1].sub = "0"

Excepcion(q) ==
    CASE q.op = "add_usuario" /\ q.status = 409 -> "UsuarioYaExisteError"
      [] q.op \in {"update_usuario", "remove_usuario"} /\ q.status = 404 -> "UsuarioNoEncontradoError"
      [] q.op = "add_libro" /\ q.status = 424 -> "NoConexionError"
      [] q.op = "add_libro" /\ q.status = 409 -> "LibroYaExisteError"
      [] q.op \in {"update_libro", "remove_libro"} /\ q.status = 404 -> "LibroNoEncontradoError"
      [] q.op = "add_prestamo" /\ q.status = 409 -> "LibroNoDisponibleError"
      [] q.op = "remove_prestamo" /\ q.status = 404 -> "PrestamoNoEncontradoError"
      [] q.op = "remove_prestamo" /\ q.status = 403 -> "DevolucionInvalidaError"
      [] q.op = "logout" /\ q.status = 409 -> "IntegrityError"
      [] OTHER -> "none"

\* the error kind of the taxonomy an exception class stands for
Clase(exc) ==
    CASE exc \in {"UsuarioNoEncontradoError", "LibroNoEncontradoError", "PrestamoNoEncontradoError"} -> "NotFound"
      [] exc \in {"UsuarioYaExisteError", "LibroYaExisteError"} -> "AlreadyExists"
      [] exc = "LibroNoDisponibleError" -> "NotAvailable"
      [] exc = "DevolucionInvalidaError" -> "InvalidReturn"
      [] exc = "NoConexionError" -> "LookupFailed"
      [] exc = "IntegrityError" -> "AlreadyRevoked"
      [] OTHER -> "none"

\* C26: two requests in a row that end in errors of different kinds are
\* answered with different statuses, and a request in which the ledger
\* raises one of its errors is not answered 200
C26_SenalesDistintas ==
    [][/\ (/\ Clase(Excepcion(resp)) # "none"
           /\ Clase(Excepcion(resp')) # "none"
           /\ Clase(Excepcion(resp)) # Clase(Excepcion(resp')))
              => resp.status # resp'.status
       /\ (/\ resp'.op = "add_prestamo"
           /\ PeticionDeAdministrador(disk, resp'.current_user)
           /\ Clase(add_prestamo(cargar_prestamos(disk), resp'.isbn,
                                 resp'.identificador, reloj).exc) # "none")
              => resp'.status # 200
       /\ (/\ resp'.op = "remove_prestamo"
           /\ Clase(remove_prestamo(cargar_prestamos(disk), resp'.isbn,
                                    resp'.current_user).exc) # "none")
              => resp'.status # 200]_vars

\* ------------------------------------------------------ authorization

\* C27: a DELETE /prestamo whose identity is not an administrator is not
\* answered 200 and removes no loan
C27_DevolverSoloAdministradores ==
    [][(resp'.op = "remove_prestamo" /\ ~PeticionDeAdministrador(disk, resp'.current_user))
          => /\ resp'.status # 200
             /\ cargar_prestamos(disk') = cargar_prestamos(disk)]_vars

\* the users of a directory that are not in another, by identifier and class
Nuevos(antes, despues) ==
    {u \in {despues.v[n] : n \in 1..Len(despues.v)} :
        \A n \in 1..Len(antes.v) :
            antes.v[n].identificador # u.identificador \/ antes.v[n].kind # u.kind}

\* C28: a request adds a user to the directory only if its identity is an
\* administrator, and adds a user of class Administrador only if its
\* identity is "0"
C28_AltaDeUsuarios ==
    [][\A u \in Nuevos(cargar_usuarios(disk), cargar_usuarios(disk')) :
          /\ PeticionDeAdministrador(disk, resp'.current_user)
          /\ u.kind = "Administrador" => resp'.current_user = "0"]_vars

\* user 1, made an administrator by "0", asked for a new administrator and
\* was answered 403
C28_Witness ==
    /\ resp.op = "add_usuario"
    /\ resp.current_user = "1"
    /\ resp.status = 403
    /\ PeticionDeAdministrador(disk, "1")
    /\ ~Truthy(buscar_usuario(cargar_usuarios(disk), resp.identificador).val)

\* -------------------------------------------------------------- reports

InformeOps == {"bajar_carne", "bajar_ficha", "bajar_informe_prestamos"}

\* C29: a report request leaves the stored users, books and loans as they
\* were, and the user or book object handed to generar_carne or
\* generar_ficha is the same after the call
C29_InformesSinEfecto ==
    [][resp'.op \in InformeOps
          => /\ disk' = disk
             /\ <<prestamos', libros', usuarios'>> = <<prestamos, libros, usuarios>>
             /\ resp'.op = "bajar_carne"
                  => LET u == buscar_usuario(cargar_usuarios(disk), resp'.current_user).val
                     IN generar_carne(u).self = u
             /\ (resp'.op = "bajar_ficha" /\ resp'.status = 200)
                  => LET l == buscar_libro(cargar_libros(disk), resp'.isbn).val
                     IN generar_ficha(l).self = l]_vars

\* the three reports have been written, the loan listing and the sheet
\* over a catalog that holds a book
C29_Witness ==
    /\ resp.op \in InformeOps
    /\ resp.status = 200
    /\ \E f \in DOMAIN temp.pdfs : f.tipo = "carne"
    /\ \E f \in DOMAIN temp.pdfs : f.tipo = "ficha"
    /\ \E f \in DOMAIN temp.pdfs : f.tipo = "prestamos"
    /\ Truthy(disk[PATH_DATA])

\* ------------------------------------------------------ external lookup

\* the service gave no book: the transport failed, the body is not the
\* expected one, or it lists no item
FalloDeConsulta(respuesta) == respuesta.kind # "json" \/ respuesta.totalItems = 0

\* C30: when an administrator adds a book by lookup and the lookup fails,
\* the answer is the one of NoConexionError (424), whatever the failure,
\* and the stored catalog is unchanged
C30_FalloDeConsulta ==
    [][(/\ resp'.op = "add_libro"
        /\ PeticionDeAdministrador(disk, resp'.current_user)
        /\ FalloDeConsulta(resp'.respuesta))
          => /\ resp'.status = 424
             /\ disk' = disk]_vars

\* --------------------------------------------------------- loan listing

\* C31: the loan listing asked by an administrator completes and has one
\* row per loan of the ledger, in the ledger's order, with the loan's
\* ISBN, the title of that book in the catalog, the borrower's identifier
\* and the date of the loan
C31_InformeCompleto ==
    [][(/\ resp'.op = "bajar_informe_prestamos"
        /\ PeticionDeAdministrador(disk, resp'.current_user))
          => /\ resp'.status = 200
             /\ LET gp == cargar_prestamos(disk)
                    filas == temp'.pdfs[[tipo |-> "prestamos", de |-> "", hora |-> reloj]]
                IN /\ Len(filas) = Len(gp.v)
                   /\ \A n \in 1..Len(filas) :
                          /\ filas[n].isbn = gp.v[n].k
                          /\ filas[n].usuario = gp.v[n].val.usuario
                          /\ filas[n].fecha.de = gp.v[n].val.fecha
                          /\ filas[n].titulo = buscar_libro(cargar_libros(disk), gp.v[n].k).val.titulo]_vars

\* ------------------------------------------------------ password change

\* C32: after a password change answered 200 a login of that user with the
\* new password is answered 200 and, when the two passwords differ, one
\* with the old password 401; after a password change answered 400 every
\* password that logged the user in before still does
C32_CambioYLogin ==
    [][resp'.op = "cambiar_password"
          => LET u == resp'.current_user
             IN /\ resp'.status = 200
                    => /\ main_login(disk', u, resp'.new_password, reloj).status = 200
                       /\ resp'.old_password # resp'.new_password
                            => main_login(disk', u, resp'.old_password, reloj).status = 401
                /\ resp'.status = 400
                    => \A p \in Passwords :
                           main_login(disk, u, p, reloj).status = 200
                               => main_login(disk', u, p, reloj).status = 200]_vars

\* user 1 changed the password to a different one and then logged in with
\* the new one
C32_Witness ==
    /\ resp.op = "login"
    /\ resp.status = 200
    /\ resp.identificador = "1"
    /\ resp.password # <<"Z", "y", "x", "w", "v", "u", "9", "$">>

\* ------------------------------------------------- no state across requests

\* C33: a request sees what the request before it saved: after a loan
\* answered 200, deleting that book or lending it again is answered 409;
\* after a return answered 200, returning it again is answered 404; after
\* a user or book was added, adding the same identifier or ISBN is not
\* answered 200; after a user was deleted, deleting it again is answered 404
C33_SinCache ==
    [][/\ (/\ resp.op = "add_prestamo" /\ resp.status = 200
           /\ resp'.op \in {"remove_libro", "add_prestamo"}
           /\ resp'.isbn = resp.isbn
           /\ PeticionDeAdministrador(disk, resp'.current_user))
              => resp'.status = 409
       /\ (/\ resp.op = "remove_prestamo" /\ resp.status = 200
           /\ resp'.op = "remove_prestamo"
           /\ resp'.isbn = resp.isbn)
              => resp'.status = 404
       /\ (/\ resp.op = "add_usuario" /\ resp.status = 200
           /\ resp'.op = "add_usuario"
           /\ resp'.identificador = resp.identificador)
              => resp'.status # 200
       /\ (/\ resp.op = "add_libro" /\ resp.status = 200
           /\ resp'.op = "add_libro"
           /\ resp'.isbn = resp.isbn)
              => resp'.status # 200
       /\ (/\ resp.op = "remove_usuario" /\ resp.status = 200
           /\ resp'.op = "remove_usuario"
           /\ resp'.identificador = resp.identificador
           /\ PeticionDeAdministrador(disk, resp'.current_user))
              => resp'.status = 404]_vars

\* the loan of a book was saved and the delete of that book that followed
\* was refused
C33_Witness ==
    /\ resp.op = "remove_libro"
    /\ resp.status = 409
    /\ cargar_prestamos(disk).kind = "dict"
    /\ DictHas(cargar_prestamos(disk), resp.isbn)

\* -------------------------------------------------- referential integrity

\* C34: every loan of the stored ledger is for an ISBN that the catalog
\* finds and to an identifier that the directory finds
C34_IntegridadReferencial ==
    LET gp == cargar_prestamos(disk)
    IN gp.kind = "dict"
          => \A n \in 1..Len(gp.v) :
                 /\ EnCatalogo(disk, gp.v[n].k)
                 /\ EnDirectorio(disk, gp.v[n].val.usuario)

\* ------------------------------------------------------ failed requests

\* C35: a request that is not answered 200 leaves the stored users, books
\* and loans as they were
C35_ErrorSinCambios ==
    [][resp'.status # 200
          => /\ disk'[PATH_USUARIOS] = disk[PATH_USUARIOS]
             /\ disk'[PATH_DATA] = disk[PATH_DATA]]_vars

\* a return by someone who is not the borrower was answered 403 and the
\* loan is still in the ledger
C35_Witness ==
    /\ resp.op = "remove_prestamo"
    /\ resp.status = 403
    /\ EnPrestamo(disk, resp.isbn)

\* ------------------------------------------------------ concurrent loans

\* C36: two loan requests for the same ISBN and different users are never
\* both answered 200, and a loan request answered 200 is in the stored
\* ledger (no loan is returned in these behaviours; the moment in which
\* the file is being rewritten is left aside)
C36_UnSoloExito ==
    /\ \A t \in Hilos, u \in Hilos :
           (/\ hilos[t].pc = "libre" /\ hilos[t].status = 200
            /\ hilos[u].pc = "libre" /\ hilos[u].status = 200
            /\ hilos[t].isbn = hilos[u].isbn)
               => hilos[t].identificador = hilos[u].identificador
    /\ \A t \in Hilos :
           (hilos[t].pc = "libre" /\ hilos[t].status = 200 /\ disk[PATH_DATA].kind = "dict")
               => /\ DictHas(disk[PATH_DATA], hilos[t].isbn)
                  /\ DictGet(disk[PATH_DATA], hilos[t].isbn).usuario = hilos[t].identificador

\* ------------------------------------------------- guards under interleaving

\* C37: when a DELETE /usuario for user u is answered 200, the stored
\* ledger holds no loan to u: a loan request to u that ran at the same
\* time did not succeed
C37_GuardasConcurrentes ==
    [][\A t \in Hilos :
          (/\ hilos[t].pc = "borrar"
           /\ hilos'[t].pc = "libre"
           /\ hilos'[t].status = 200)
              => ~TienePrestamos(disk', hilos[t].identificador)]_vars

\* --------------------------------------------------- tokens and accounts

OpsDeAdministrador == {"add_usuario", "remove_usuario", "add_libro", "add_prestamo"}

\* the directory holds the identity as an administrator
AdministradorEnDirectorio(d, identificador) ==
    EsAdministrador(buscar_usuario(cargar_usuarios(d), identificador).val)

\* C38: a request for an administrator-only operation whose token names an
\* identity that the directory does not hold as an administrator is
\* refused and changes nothing in storage
C38_DerechosDelDirectorio ==
    [][(/\ resp'.op \in OpsDeAdministrador
        /\ ~AdministradorEnDirectorio(disk, resp'.current_user))
          => /\ resp'.status \in {401, 403}
             /\ disk' = disk]_vars

\* the super-administrator was removed from the directory and a request
\* with the token issued to "0" before was answered 403
C38_Witness ==
    /\ resp.op \in OpsDeAdministrador
    /\ resp.current_user = "0"
    /\ resp.status = 403
    /\ ~EnDirectorio(disk, "0")
    /\ \E n \in 1..Len(emitidos) : emitidos[n].sub = "0" /\ emitidos[n].jti = resp.jti

\* C39: right after a user was created, a token with that identifier,
\* issued before the user existed in its present form, is not accepted to
\* update the profile or return loans of that user
C39_TokenDeLaCuenta ==
    [][(/\ resp.op = "add_usuario" /\ resp.status = 200
        /\ resp'.op \in {"update_usuario", "remove_prestamo"}
        /\ resp'.current_user = resp.identificador
        /\ emitidos' = emitidos)
          => resp'.status # 200]_vars

====
